---- MODULE Spec2Model ----
(***************************************************************************)
(* A model of the jlox tree-walking interpreter: the driver (main.rs run), *)
(* the recursive-descent parser, the resolver, and the interpreter with    *)
(* its environments, functions, classes and instances.                     *)
(*                                                                         *)
(* A run takes one source, scans it, parses the tokens, resolves the       *)
(* statements when the parser reported no error, and executes the          *)
(* top-level statements one by one when the resolver reported none.        *)
(*                                                                         *)
(* Numbers are modelled as integers (the programs use small whole          *)
(* numbers only); a Rust panic is the outcome "panic".                     *)
(***************************************************************************)
EXTENDS Integers, Sequences, FiniteSets, TLC

VARIABLES
    source,     \* the source text being run: its words under Spec, its graphemes
                \* under SpecScan
    lexerrs,    \* history: how many errors the scanner has reported for it
    tokens,     \* the token sequence scan_tokens returned
    phase,      \* position of the driver: "file" (run_file entered), then in run()
                \* "start", "scanned", "parsed", "resolved", "running", "done" (or
                \* "panic"), and "exited" once main has returned
    parser,     \* [current, num_of_parser_errs] after parse()
    stmts,      \* the statement list (patched in place by the resolver)
    resolver,   \* the resolver's state after resolve_stmts
    interp,     \* the interpreter's state (heaps, current environment, output)
    pc,         \* index of the next top-level statement interpret() executes
    result,     \* what interpret() returned: [k |-> "none" | "ok" | "err" | "ret" | "panic", ...]
    trace,      \* history: the calls run() has made so far, in order
    exitcode    \* the process exit code: "none" until main returns, then "SUCCESS",
                \* "FAILURE", or "panic" (the code of an aborted process)

vars ==
    <<source, lexerrs, tokens, phase, parser, stmts, resolver, interp, pc, result, trace,
      exitcode>>

(***************************************************************************)
(* Recursive operators of the model, declared ahead of their definitions.  *)
(***************************************************************************)
RECURSIVE SynchronizeLoop(_)
RECURSIVE ParseRule(_, _, _)
RECURSIVE ResolveStmts(_, _)
RECURSIVE ResolveFunction(_, _, _)
RECURSIVE ResolveMethods(_, _, _)
RECURSIVE Interpret(_, _, _, _)
RECURSIVE ExecuteBlock(_, _, _)
RECURSIVE CallFunction(_, _, _)
RECURSIVE EvaluateFunctionCall(_, _, _)
RECURSIVE ParseLoop(_, _)
RECURSIVE Declaration(_)
RECURSIVE ClassMethodsLoop(_, _)
RECURSIVE FunctionParamsLoop(_, _)
RECURSIVE Function(_, _)
RECURSIVE Statement(_)
RECURSIVE BlockLoop(_, _)
RECURSIVE Assignment(_)
RECURSIVE BinaryLoop(_, _, _)
RECURSIVE Unary(_)
RECURSIVE CallLoop(_)
RECURSIVE FinishCallLoop(_, _)
RECURSIVE Primary(_)
RECURSIVE ResolveLocalDepthFrom(_, _, _)
RECURSIVE ResolveExpr(_, _)
RECURSIVE ResolveExprs(_, _, _)
RECURSIVE ResolveStmt(_, _)
RECURSIVE ResolveStmtsFrom(_, _, _)
RECURSIVE ResolveMethodsFrom(_, _, _)
RECURSIVE EnvGet(_, _, _)
RECURSIVE EnvAssign(_, _, _, _)
RECURSIVE AncestorLoop(_, _, _, _)
RECURSIVE FindMethod(_, _, _)
RECURSIVE Evaluate(_, _)
RECURSIVE EvaluateArguments(_, _, _, _)
RECURSIVE Execute(_, _)
RECURSIVE ExecuteStmtsFrom(_, _, _)
RECURSIVE WhileLoop(_, _)
RECURSIVE Join(_)
RECURSIVE LineCommentLoop(_)
RECURSIVE BlockCommentLoop(_)
RECURSIVE StringLoop(_)
RECURSIVE DigitsLoop(_)
RECURSIVE Decimal(_, _)
RECURSIVE Significant(_)
RECURSIVE IdentifierLoop(_)
RECURSIVE ScanTokensLoop(_)

(***************************************************************************)
(* Tokens (token.rs).  A token is [type, lexeme, num]; num is the literal  *)
(* of a NUMBER token, and the lexeme of a STRING token is its literal.     *)
(***************************************************************************)
Tok(type, lexeme) == [type |-> type, lexeme |-> lexeme, num |-> 0]

NumTok(n) == [type |-> "NUMBER", lexeme |-> ToString(n), num |-> n]

StrTok(s) == [type |-> "STRING", lexeme |-> s, num |-> 0]

EOFTok == Tok("EOF", "")

\* The scanner's keyword table.
KEYWORDS ==
    [w \in {"and", "class", "else", "extension", "false", "for", "fun", "if", "nil", "or",
            "print", "return", "super", "this", "true", "var", "while"} |->
        CASE w = "and" -> "AND" [] w = "class" -> "CLASS" [] w = "else" -> "ELSE"
          [] w = "extension" -> "EXTENSION"
          [] w = "false" -> "FALSE" [] w = "for" -> "FOR" [] w = "fun" -> "FUN"
          [] w = "if" -> "IF" [] w = "nil" -> "NIL" [] w = "or" -> "OR"
          [] w = "print" -> "PRINT" [] w = "return" -> "RETURN"
          [] w = "super" -> "SUPER" [] w = "this" -> "THIS" [] w = "true" -> "TRUE"
          [] w = "var" -> "VAR" [] w = "while" -> "WHILE"]

\* The scanner's one- and two-character tokens.
Punctuation ==
    [w \in {"(", ")", "{", "}", ",", ".", "-", "+", ";", "/", "*", "!", "!=",
            "=", "==", ">", ">=", "<", "<="} |->
        CASE w = "(" -> "LEFT_PARAN" [] w = ")" -> "RIGHT_PARAN"
          [] w = "{" -> "LEFT_BRACE" [] w = "}" -> "RIGHT_BRACE"
          [] w = "," -> "COMMA" [] w = "." -> "DOT" [] w = "-" -> "MINUS"
          [] w = "+" -> "PLUS" [] w = ";" -> "SEMICOLON" [] w = "/" -> "SLASH"
          [] w = "*" -> "STAR" [] w = "!" -> "BANG" [] w = "!=" -> "BANG_EQUAL"
          [] w = "=" -> "EQUAL" [] w = "==" -> "EQUAL_EQUAL"
          [] w = ">" -> "GREATER" [] w = ">=" -> "GREATER_EQUAL"
          [] w = "<" -> "LESS" [] w = "<=" -> "LESS_EQUAL"]

\* The number literals of the programs modelled, with the value number() parses.
Numerals ==
    [w \in {"0", "1", "2", "3", "4", "5", "6", "7", "10", "42"} |->
        CASE w = "0" -> 0 [] w = "1" -> 1 [] w = "2" -> 2 [] w = "3" -> 3 [] w = "4" -> 4
          [] w = "5" -> 5 [] w = "6" -> 6 [] w = "7" -> 7 [] w = "10" -> 10 [] w = "42" -> 42]

\* The string literals of the programs modelled (written 'text'), with the
\* literal string_litral() cuts out of the quotes.
StringLitrals ==
    [w \in {"''", "'A'", "'B'", "'global'", "'local'"} |->
        CASE w = "''" -> "" [] w = "'A'" -> "A" [] w = "'B'" -> "B"
          [] w = "'global'" -> "global" [] w = "'local'" -> "local"]

\* A word scan_token reports as an unexpected character; it adds no token.
Unexpected == {"@"}

\* The token the scanner emits for one word of source text.
WordTok(w) ==
    IF w \in DOMAIN Numerals THEN NumTok(Numerals[w])
    ELSE IF w \in DOMAIN StringLitrals THEN StrTok(StringLitrals[w])
    ELSE IF w \in DOMAIN Punctuation THEN Tok(Punctuation[w], w)
    ELSE IF w \in DOMAIN KEYWORDS THEN Tok(KEYWORDS[w], w)
    ELSE Tok("IDENTIFIER", w)

\* The tokens of a sequence of words.
Words(ws) == [i \in 1..Len(ws) |-> WordTok(ws[i])]

\* scan_tokens on a source made of the words ws (separated by blanks): the
\* tokens of the words that have one, then EOF.
ScanTokens(ws) == Append(Words(SelectSeq(ws, LAMBDA w : w \notin Unexpected)), EOFTok)

\* The errors scan_tokens reports on the words ws: one per unexpected character.
ScanErrors(ws) == Cardinality({i \in 1..Len(ws) : ws[i] \in Unexpected})

(***************************************************************************)
(* Scanner (scanner.rs), grapheme by grapheme.  A scanner is               *)
(* [source_graphemes, start, current, line, tokens] with the 0-based       *)
(* positions of the code, errs (history: the errors reported so far) and   *)
(* panicked (a slice out of range aborted the scan).                       *)
(***************************************************************************)
NewScanner(text) ==
    [source_graphemes |-> text, start |-> 0, current |-> 0, line |-> 1,
     tokens |-> <<>>, errs |-> 0, panicked |-> FALSE]

\* What peek() and peek_next() return at the end of the source ("\0").
NUL == ""

IsDigit(c) == c \in {"0", "1", "2", "3", "4", "5", "6", "7", "8", "9"}

IsAlpha(c) ==
    c \in {"_", "a", "b", "c", "d", "e", "f", "g", "h", "i", "j", "k", "l", "m", "n",
           "o", "p", "q", "r", "s", "t", "u", "v", "w", "x", "y", "z", "A", "B",
           "C", "D", "E", "F", "G", "H", "I", "J", "K", "L", "M", "N", "O", "P",
           "Q", "R", "S", "T", "U", "V", "W", "X", "Y", "Z"}

IsAlphaNumeric(c) == IsAlpha(c) \/ IsDigit(c)

ScannerIsAtEnd(sc) == sc.current >= Len(sc.source_graphemes)

\* advance(): the scanner after the grapheme at current was taken.
ScannerAdvance(sc) == [sc EXCEPT !.current = @ + 1]

\* Whether advance_if_matched(expected) advances.
AdvanceIfMatched(sc, expected) ==
    /\ ~ScannerIsAtEnd(sc)
    /\ sc.source_graphemes[sc.current + 1] = expected

ScannerPeek(sc) ==
    IF ScannerIsAtEnd(sc) THEN NUL ELSE sc.source_graphemes[sc.current + 1]

PeekNext(sc) ==
    IF sc.current + 1 >= Len(sc.source_graphemes) THEN NUL
    ELSE sc.source_graphemes[sc.current + 2]

\* join(""): the string of a sequence of graphemes.
Join(graphemes) ==
    IF graphemes = <<>> THEN "" ELSE graphemes[1] \o Join(Tail(graphemes))

\* source_graphemes[start..current].join("")
ScannerText(sc) == Join(SubSeq(sc.source_graphemes, sc.start + 1, sc.current))

\* error(line, message): one more error on the error channel.
ScannerError(sc) == [sc EXCEPT !.errs = @ + 1]

AddToken(sc, type) == [sc EXCEPT !.tokens = Append(@, Tok(type, ScannerText(sc)))]

\* The single line comment loop of handle_slash.
LineCommentLoop(sc) ==
    IF ScannerPeek(sc) # "\n" /\ ~ScannerIsAtEnd(sc)
    THEN LineCommentLoop(ScannerAdvance(sc))
    ELSE sc

\* The multi line comment loop of handle_slash: [sc, comment_terminated].
BlockCommentLoop(sc) ==
    IF ScannerIsAtEnd(sc) THEN [sc |-> sc, comment_terminated |-> FALSE]
    ELSE IF ScannerPeek(sc) = "\n"
    THEN BlockCommentLoop(ScannerAdvance([sc EXCEPT !.line = @ + 1]))
    ELSE IF ScannerPeek(sc) = "*" /\ PeekNext(sc) = "/"
    THEN [sc |-> ScannerAdvance(ScannerAdvance(sc)), comment_terminated |-> TRUE]
    ELSE BlockCommentLoop(ScannerAdvance(sc))

HandleSlash(sc) ==
    IF AdvanceIfMatched(sc, "/") THEN LineCommentLoop(ScannerAdvance(sc))
    ELSE IF AdvanceIfMatched(sc, "*")
    THEN LET r == BlockCommentLoop(ScannerAdvance(sc))
         IN  IF r.comment_terminated THEN r.sc ELSE ScannerError(r.sc)
    ELSE AddToken(sc, "SLASH")

\* The loop of string_litral: up to the closing quote or the end.
StringLoop(sc) ==
    IF ScannerPeek(sc) # "\"" /\ ~ScannerIsAtEnd(sc)
    THEN StringLoop(ScannerAdvance(IF ScannerPeek(sc) = "\n"
                                   THEN [sc EXCEPT !.line = @ + 1] ELSE sc))
    ELSE sc

\* string_litral(): the literal is source_graphemes[start + 1..current - 1],
\* a slice that panics when it begins after its end.
StringLitral(sc) ==
    LET s1 == StringLoop(sc)
        s2 == IF ScannerIsAtEnd(s1) THEN ScannerError(s1) ELSE ScannerAdvance(s1)
    IN  IF s2.start + 1 > s2.current - 1
        THEN [s2 EXCEPT !.panicked = TRUE]
        ELSE [s2 EXCEPT !.tokens =
                 Append(@, StrTok(Join(SubSeq(s2.source_graphemes, s2.start + 2,
                                              s2.current - 1))))]

DigitsLoop(sc) ==
    IF IsDigit(ScannerPeek(sc)) THEN DigitsLoop(ScannerAdvance(sc)) ELSE sc

DigitValue(c) ==
    CASE c = "0" -> 0 [] c = "1" -> 1 [] c = "2" -> 2 [] c = "3" -> 3 [] c = "4" -> 4
      [] c = "5" -> 5 [] c = "6" -> 6 [] c = "7" -> 7 [] c = "8" -> 8 [] c = "9" -> 9

\* The whole number the digits write, after the digits already read as acc.
Decimal(digits, acc) ==
    IF digits = <<>> THEN acc
    ELSE Decimal(Tail(digits), 10 * acc + DigitValue(digits[1]))

\* The digits without their trailing zeros.
Significant(digits) ==
    IF digits # <<>> /\ digits[Len(digits)] = "0"
    THEN Significant(SubSeq(digits, 1, Len(digits) - 1))
    ELSE digits

\* str::parse::<f64> of the text of number(): a whole number is its value,
\* a number with a fraction is <<whole part, fraction>> (1.50 is <<1, 5>>).
ParseF64(graphemes) ==
    LET dot == {i \in 1..Len(graphemes) : graphemes[i] = "."}
    IN  IF dot = {} THEN Decimal(graphemes, 0)
        ELSE LET d == CHOOSE i \in dot : TRUE
                 fraction == Significant(SubSeq(graphemes, d + 1, Len(graphemes)))
             IN  IF fraction = <<>> THEN Decimal(SubSeq(graphemes, 1, d - 1), 0)
                 ELSE <<Decimal(SubSeq(graphemes, 1, d - 1), 0), Decimal(fraction, 0)>>

ScanNumber(sc) ==
    LET s1 == DigitsLoop(sc)
        s2 == IF ScannerPeek(s1) = "." /\ IsDigit(PeekNext(s1))
              THEN DigitsLoop(ScannerAdvance(s1))
              ELSE s1
    IN  [s2 EXCEPT !.tokens =
            Append(@, [type |-> "NUMBER", lexeme |-> ScannerText(s2),
                       num |-> ParseF64(SubSeq(s2.source_graphemes, s2.start + 1,
                                               s2.current))])]

IdentifierLoop(sc) ==
    IF IsAlphaNumeric(ScannerPeek(sc)) THEN IdentifierLoop(ScannerAdvance(sc)) ELSE sc

ScanIdentifier(sc) ==
    LET s1 == IdentifierLoop(sc)
        text == ScannerText(s1)
    IN  AddToken(s1, IF text \in DOMAIN KEYWORDS THEN KEYWORDS[text] ELSE "IDENTIFIER")

\* scan_token(): the scanner after the token (or comment, blank, error) that
\* begins at current.
ScanToken(sc) ==
    LET c == sc.source_graphemes[sc.current + 1]
        s == ScannerAdvance(sc)
    IN  IF c \in {"(", ")", "{", "}", ",", ".", "-", "+", ";", "*"}
        THEN AddToken(s, Punctuation[c])
        ELSE IF c \in {"!", "=", "<", ">"}
        THEN IF AdvanceIfMatched(s, "=")
             THEN AddToken(ScannerAdvance(s), Punctuation[c \o "="])
             ELSE AddToken(s, Punctuation[c])
        ELSE IF c = "/" THEN HandleSlash(s)
        ELSE IF c \in {" ", "\r", "\t"} THEN s
        ELSE IF c = "\n" THEN [s EXCEPT !.line = @ + 1]
        ELSE IF c = "\"" THEN StringLitral(s)
        ELSE IF IsDigit(c) THEN ScanNumber(s)
        ELSE IF IsAlpha(c) THEN ScanIdentifier(s)
        ELSE ScannerError(s)

\* The loop of scan_tokens and the EOF token after it.
ScanTokensLoop(sc) ==
    IF sc.panicked THEN sc
    ELSE IF ~ScannerIsAtEnd(sc)
    THEN ScanTokensLoop(ScanToken([sc EXCEPT !.start = sc.current]))
    ELSE AddToken(sc, "EOF")

\* Scanner::new(text).scan_tokens()
ScanGraphemes(text) == ScanTokensLoop(NewScanner(text))

(***************************************************************************)
(* AST (ast.rs).  Option<usize> depth: None is -1.  An absent optional     *)
(* node is NoNode.                                                         *)
(***************************************************************************)
None == -1

NoNode == [k |-> "None"]

Litral(t, n, s) == [k |-> "Litral", t |-> t, n |-> n, s |-> s]

Variable(name) == [k |-> "Variable", name |-> name, depth |-> None]

(***************************************************************************)
(* Parser (parser.rs).  The parser state is p = [tokens, current, errs];   *)
(* current is the 0-based cursor of the source, errs is                    *)
(* num_of_parser_errs.  Every parse function returns [p, ok, v]: the new   *)
(* parser state, whether it returned Ok, and the node (or, with ok FALSE,  *)
(* the token the ParserError was made at).                                 *)
(***************************************************************************)
POk(p, v) == [p |-> p, ok |-> TRUE, v |-> v]

PErr(p, tok) == [p |-> p, ok |-> FALSE, v |-> [k |-> "ParserError", type |-> tok.type]]

Peek(p) == p.tokens[p.current + 1]

Previous(p) == p.tokens[p.current]

IsAtEnd(p) == Peek(p).type = "EOF"

Advance(p) == IF ~IsAtEnd(p) THEN [p EXCEPT !.current = @ + 1] ELSE p

Check(p, type) == IF IsAtEnd(p) THEN FALSE ELSE Peek(p).type = type

\* matches(): [p, ok]; the cursor moves over the token when one of the types matches.
Matches(p, types) ==
    IF \E t \in types : Check(p, t)
    THEN [p |-> Advance(p), ok |-> TRUE]
    ELSE [p |-> p, ok |-> FALSE]

\* consume(): Ok(the consumed token) or Err at the peeked token.
Consume(p, type) ==
    IF Check(p, type) THEN POk(Advance(p), Previous(Advance(p)))
    ELSE PErr(p, Peek(p))

\* Parser::error: count the error (the message goes to stderr).
ParserError(p) == [p EXCEPT !.errs = @ + 1]

MaxParams == 255

SyncKeywords == {"CLASS", "FUN", "VAR", "FOR", "IF", "WHILE", "PRINT", "RETURN"}

SynchronizeLoop(p) ==
    IF IsAtEnd(p) THEN p
    ELSE IF Previous(p).type = "SEMICOLON" THEN p
    ELSE IF Peek(p).type \in SyncKeywords THEN p
    ELSE SynchronizeLoop(Advance(p))

Synchronize(p) == SynchronizeLoop(Advance(p))

\* The parse functions.  The `?` of the source is the arm that returns the
\* failed result; a CASE takes the first arm that holds, in the order written.
\* A function's leading call down the precedence chain (term() starts with
\* factor(), which starts with unary()) is written as the steps that call
\* takes, from unary() upwards, each step being the named function from its
\* first operand on.  Right operands call the function itself.
Primary(p) ==
    LET t == Peek(p)
        dot == Consume(Advance(p), "DOT")
        method == Consume(dot.p, "IDENTIFIER")
        expr == ParseRule("Expression", Advance(p), NoNode)
        close == Consume(expr.p, "RIGHT_PARAN")
    IN  CASE t.type = "FALSE" -> POk(Advance(p), Litral("Boolean", 0, ""))
          [] t.type = "TRUE" -> POk(Advance(p), Litral("Boolean", 1, ""))
          [] t.type = "NIL" -> POk(Advance(p), Litral("Nil", 0, ""))
          [] t.type = "NUMBER" -> POk(Advance(p), Litral("Number", t.num, ""))
          [] t.type = "STRING" -> POk(Advance(p), Litral("String", 0, t.lexeme))
          [] t.type = "IDENTIFIER" -> POk(Advance(p), Variable(t.lexeme))
          [] t.type = "THIS" -> POk(Advance(p), [k |-> "This", depth |-> None])
          [] t.type = "SUPER" /\ ~dot.ok -> dot
          [] t.type = "SUPER" /\ ~method.ok -> method
          [] t.type = "SUPER" ->
                POk(method.p, [k |-> "Super", method |-> method.v.lexeme, depth |-> None])
          [] t.type = "LEFT_PARAN" /\ ~expr.ok -> expr
          [] t.type = "LEFT_PARAN" /\ ~close.ok -> close
          [] t.type = "LEFT_PARAN" -> POk(close.p, [k |-> "Grouping", expression |-> expr.v])
          [] OTHER -> PErr(Advance(p), Previous(Advance(p)))

\* finish_call's argument loop: args so far; returns [p, ok, v] with v the arguments.
FinishCallLoop(p, arguments) ==
    LET p0 == IF Len(arguments) >= MaxParams THEN ParserError(p) ELSE p
        arg == ParseRule("Expression", p0, NoNode)
        comma == Matches(arg.p, {"COMMA"})
    IN  CASE ~arg.ok -> arg
          [] comma.ok -> FinishCallLoop(comma.p, Append(arguments, arg.v))
          [] OTHER -> POk(arg.p, Append(arguments, arg.v))

FinishCall(p, callee) ==
    LET args == IF ~Check(p, "RIGHT_PARAN") THEN FinishCallLoop(p, <<>>)
                ELSE POk(p, <<>>)
        close == Consume(args.p, "RIGHT_PARAN")
    IN  CASE ~args.ok -> args
          [] ~close.ok -> close
          [] OTHER -> POk(close.p, [k |-> "Call", callee |-> callee, arguments |-> args.v])

\* The loops below take the expression parsed so far as the Ok result it came
\* in: expr.p is the parser after it, expr.v the node.

\* call()'s loop.
CallLoop(expr) ==
    LET paran == Matches(expr.p, {"LEFT_PARAN"})
        call == ParseRule("FinishCall", paran.p, expr.v)
        dot == Matches(expr.p, {"DOT"})
        name == Consume(dot.p, "IDENTIFIER")
    IN  CASE paran.ok /\ ~call.ok -> call
          [] paran.ok -> CallLoop(call)
          [] dot.ok /\ ~name.ok -> name
          [] dot.ok ->
                CallLoop(POk(name.p, [k |-> "Get", object |-> expr.v, name |-> name.v.lexeme]))
          [] OTHER -> expr

Call(p) ==
    LET expr == Primary(p)
    IN  IF expr.ok THEN CallLoop(expr) ELSE expr

Unary(p) ==
    LET m == Matches(p, {"BANG", "MINUS"})
        right == Unary(m.p)
    IN  CASE ~m.ok -> Call(p)
          [] ~right.ok -> right
          [] OTHER -> POk(right.p, [k |-> "Unary", operator |-> Previous(m.p).type,
                                    right |-> right.v])

\* A binary operator's loop: while one of the types matches, parse the right
\* operand with the named function and fold it into the expression.
BinaryLoop(expr, types, operand) ==
    LET m == Matches(expr.p, types)
        right == ParseRule(operand, m.p, NoNode)
    IN  CASE ~m.ok -> expr
          [] ~right.ok -> right
          [] OTHER -> BinaryLoop(POk(right.p, [k |-> "Binary", left |-> expr.v,
                                               operator |-> Previous(m.p).type,
                                               right |-> right.v]),
                                 types, operand)

\* factor()'s loop.
FactorLoop(expr) == BinaryLoop(expr, {"STAR", "SLASH"}, "Unary")

Factor(p) ==
    LET unary == Unary(p)
    IN  IF unary.ok THEN FactorLoop(unary) ELSE unary

\* term()'s loop.
TermLoop(expr) == BinaryLoop(expr, {"MINUS", "PLUS"}, "Factor")

Term(p) ==
    LET unary == Unary(p)
        factor == FactorLoop(unary)
    IN  CASE ~unary.ok -> unary
          [] ~factor.ok -> factor
          [] OTHER -> TermLoop(factor)

\* comparison()'s loop.
ComparisonLoop(expr) ==
    BinaryLoop(expr, {"GREATER", "GREATER_EQUAL", "LESS", "LESS_EQUAL"}, "Term")

Comparison(p) ==
    LET unary == Unary(p)
        factor == FactorLoop(unary)
        term == TermLoop(factor)
    IN  CASE ~unary.ok -> unary
          [] ~factor.ok -> factor
          [] ~term.ok -> term
          [] OTHER -> ComparisonLoop(term)

\* equality()'s loop.
EqualityLoop(expr) == BinaryLoop(expr, {"BANG_EQUAL", "EQUAL_EQUAL"}, "Comparison")

Equality(p) ==
    LET unary == Unary(p)
        factor == FactorLoop(unary)
        term == TermLoop(factor)
        comparison == ComparisonLoop(term)
    IN  CASE ~unary.ok -> unary
          [] ~factor.ok -> factor
          [] ~term.ok -> term
          [] ~comparison.ok -> comparison
          [] OTHER -> EqualityLoop(comparison)

\* and() from its left operand on: one optional "and" (an if, not a loop, in the source).
AndRest(left) ==
    LET m == Matches(left.p, {"AND"})
        right == ParseRule("Equality", m.p, NoNode)
    IN  CASE ~m.ok -> left
          [] ~right.ok -> right
          [] OTHER -> POk(right.p, [k |-> "Logical", left |-> left.v,
                                    operator |-> "AND", right |-> right.v])

And(p) ==
    LET unary == Unary(p)
        factor == FactorLoop(unary)
        term == TermLoop(factor)
        comparison == ComparisonLoop(term)
        equality == EqualityLoop(comparison)
    IN  CASE ~unary.ok -> unary
          [] ~factor.ok -> factor
          [] ~term.ok -> term
          [] ~comparison.ok -> comparison
          [] ~equality.ok -> equality
          [] OTHER -> AndRest(equality)

\* or() from its left operand on: one optional "or" (an if, not a loop, in the source).
OrRest(left) ==
    LET m == Matches(left.p, {"OR"})
        right == ParseRule("And", m.p, NoNode)
    IN  CASE ~m.ok -> left
          [] ~right.ok -> right
          [] OTHER -> POk(right.p, [k |-> "Logical", left |-> left.v,
                                    operator |-> "OR", right |-> right.v])

Or(p) ==
    LET unary == Unary(p)
        factor == FactorLoop(unary)
        term == TermLoop(factor)
        comparison == ComparisonLoop(term)
        equality == EqualityLoop(comparison)
        and == AndRest(equality)
    IN  CASE ~unary.ok -> unary
          [] ~factor.ok -> factor
          [] ~term.ok -> term
          [] ~comparison.ok -> comparison
          [] ~equality.ok -> equality
          [] ~and.ok -> and
          [] OTHER -> OrRest(and)

\* assignment() from its left-hand expression on, were an invalid target to
\* fail the statement.
AssignmentRestFailing(expr) ==
    LET m == Matches(expr.p, {"EQUAL"})
        value == Assignment(m.p)
    IN  CASE ~m.ok -> expr
          [] ~value.ok -> value
          [] expr.v.k = "Variable" ->
                POk(value.p, [k |-> "Assign", name |-> expr.v.name,
                              depth |-> None, value |-> value.v])
          [] expr.v.k = "Get" ->
                POk(value.p, [k |-> "Set", object |-> expr.v.object,
                              name |-> expr.v.name, value |-> value.v])
          [] OTHER -> PErr(value.p, Previous(m.p))

\* assignment() from its left-hand expression on.
AssignmentRest(expr) ==
    LET m == Matches(expr.p, {"EQUAL"})
        value == Assignment(m.p)
    IN  CASE ~m.ok -> expr
          [] ~value.ok -> value
          [] expr.v.k = "Variable" ->
                POk(value.p, [k |-> "Assign", name |-> expr.v.name,
                              depth |-> None, value |-> value.v])
          [] expr.v.k = "Get" ->
                POk(value.p, [k |-> "Set", object |-> expr.v.object,
                              name |-> expr.v.name, value |-> value.v])
          [] OTHER -> POk(ParserError(value.p), expr.v)

Assignment(p) ==
    LET unary == Unary(p)
        factor == FactorLoop(unary)
        term == TermLoop(factor)
        comparison == ComparisonLoop(term)
        equality == EqualityLoop(comparison)
        and == AndRest(equality)
        or == OrRest(and)
    IN  CASE ~unary.ok -> unary
          [] ~factor.ok -> factor
          [] ~term.ok -> term
          [] ~comparison.ok -> comparison
          [] ~equality.ok -> equality
          [] ~and.ok -> and
          [] ~or.ok -> or
          [] OTHER -> AssignmentRest(or)

Expression(p) == Assignment(p)

VarDeclaration(p) ==
    LET name == Consume(p, "IDENTIFIER")
        m == Matches(name.p, {"EQUAL"})
        init == IF m.ok THEN ParseRule("Expression", m.p, NoNode) ELSE POk(name.p, NoNode)
        semi == Consume(init.p, "SEMICOLON")
    IN  CASE ~name.ok -> name
          [] ~init.ok -> init
          [] ~semi.ok -> semi
          [] OTHER -> POk(semi.p, [k |-> "Var", name |-> name.v.lexeme, expression |-> init.v])

PrintStatement(p) ==
    LET expr == ParseRule("Expression", p, NoNode)
        semi == Consume(expr.p, "SEMICOLON")
    IN  CASE ~expr.ok -> expr
          [] ~semi.ok -> semi
          [] OTHER -> POk(semi.p, [k |-> "PrintStmt", expression |-> expr.v])

ExpressionStatement(p) ==
    LET expr == ParseRule("Expression", p, NoNode)
        semi == Consume(expr.p, "SEMICOLON")
    IN  CASE ~expr.ok -> expr
          [] ~semi.ok -> semi
          [] OTHER -> POk(semi.p, [k |-> "ExpressionStmt", expression |-> expr.v])

\* block()'s loop: declarations until '}' or the end of input.
BlockLoop(p, statements) ==
    LET d == ParseRule("Declaration", p, NoNode)
    IN  CASE Check(p, "RIGHT_BRACE") \/ IsAtEnd(p) -> [p |-> p, v |-> statements]
          [] d.some -> BlockLoop(d.p, Append(statements, d.v))
          [] OTHER -> BlockLoop(d.p, statements)

\* block(): Ok(the statements) or Err when the closing '}' is missing.
Block(p) ==
    LET body == BlockLoop(p, <<>>)
        close == Consume(body.p, "RIGHT_BRACE")
    IN  IF close.ok THEN POk(close.p, body.v) ELSE close

IfStatement(p) ==
    LET open == Consume(p, "LEFT_PARAN")
        condition == ParseRule("Expression", open.p, NoNode)
        close == Consume(condition.p, "RIGHT_PARAN")
        then_branch == ParseRule("Statement", close.p, NoNode)
        m == Matches(then_branch.p, {"ELSE"})
        else_branch == IF m.ok THEN ParseRule("Statement", m.p, NoNode)
                       ELSE POk(then_branch.p, NoNode)
    IN  CASE ~open.ok -> open
          [] ~condition.ok -> condition
          [] ~close.ok -> close
          [] ~then_branch.ok -> then_branch
          [] ~else_branch.ok -> else_branch
          [] OTHER -> POk(else_branch.p,
                          [k |-> "IfStmt", condition |-> condition.v,
                           then_branch |-> then_branch.v, else_branch |-> else_branch.v])

WhileStatement(p) ==
    LET open == Consume(p, "LEFT_PARAN")
        condition == ParseRule("Expression", open.p, NoNode)
        close == Consume(condition.p, "RIGHT_PARAN")
        body == ParseRule("Statement", close.p, NoNode)
    IN  CASE ~open.ok -> open
          [] ~condition.ok -> condition
          [] ~close.ok -> close
          [] ~body.ok -> body
          [] OTHER -> POk(body.p, [k |-> "WhileStmt", condition |-> condition.v,
                                   body |-> body.v])

\* An optional expression of for_statement() and return_statement(): absent
\* when the token at the cursor is the closing one.
OptionalExpression(p, closing) ==
    IF ~Check(p, closing) THEN ParseRule("Expression", p, NoNode) ELSE POk(p, NoNode)

\* The statement for_statement() would build were the increment put before
\* the body.
ForDesugarStepFirst(initializer, condition, increment, body) ==
    LET body1 == IF increment.k # "None"
                 THEN [k |-> "Block",
                       statements |-> <<[k |-> "ExpressionStmt", expression |-> increment], body>>]
                 ELSE body
        cond1 == IF condition.k = "None" THEN Litral("Boolean", 1, "") ELSE condition
        body2 == [k |-> "WhileStmt", condition |-> cond1, body |-> body1]
    IN  IF initializer.k # "None"
        THEN [k |-> "Block", statements |-> <<initializer, body2>>]
        ELSE body2

\* The statement for_statement() builds from the parts it parsed:
\* Block[initializer, While(condition, Block[body, increment])].
ForDesugar(initializer, condition, increment, body) ==
    LET body1 == IF increment.k # "None"
                 THEN [k |-> "Block",
                       statements |-> <<body, [k |-> "ExpressionStmt", expression |-> increment]>>]
                 ELSE body
        cond1 == IF condition.k = "None" THEN Litral("Boolean", 1, "") ELSE condition
        body2 == [k |-> "WhileStmt", condition |-> cond1, body |-> body1]
    IN  IF initializer.k # "None"
        THEN [k |-> "Block", statements |-> <<initializer, body2>>]
        ELSE body2

ForStatement(p) ==
    LET open == Consume(p, "LEFT_PARAN")
        initializer ==
            CASE Matches(open.p, {"SEMICOLON"}).ok ->
                    POk(Matches(open.p, {"SEMICOLON"}).p, NoNode)
              [] Matches(open.p, {"VAR"}).ok ->
                    ParseRule("VarDeclaration", Matches(open.p, {"VAR"}).p, NoNode)
              [] OTHER -> ParseRule("ExpressionStatement", open.p, NoNode)
        condition == OptionalExpression(initializer.p, "SEMICOLON")
        semi == Consume(condition.p, "SEMICOLON")
        increment == OptionalExpression(semi.p, "RIGHT_PARAN")
        close == Consume(increment.p, "RIGHT_PARAN")
        body == ParseRule("Statement", close.p, NoNode)
    IN  CASE ~open.ok -> open
          [] ~initializer.ok -> initializer
          [] ~condition.ok -> condition
          [] ~semi.ok -> semi
          [] ~increment.ok -> increment
          [] ~close.ok -> close
          [] ~body.ok -> body
          [] OTHER -> POk(body.p, ForDesugar(initializer.v, condition.v, increment.v, body.v))

ReturnStatement(p) ==
    LET value == OptionalExpression(p, "SEMICOLON")
        semi == Consume(value.p, "SEMICOLON")
    IN  CASE ~value.ok -> value
          [] ~semi.ok -> semi
          [] OTHER -> POk(semi.p, [k |-> "Return", value |-> value.v])

\* statement()'s block arm: Stmt::Block of block()'s statements.
BlockStatement(p) ==
    LET statements == Block(p)
    IN  IF statements.ok THEN POk(statements.p, [k |-> "Block", statements |-> statements.v])
        ELSE statements

Statement(p) ==
    CASE Matches(p, {"PRINT"}).ok -> PrintStatement(Matches(p, {"PRINT"}).p)
      [] Matches(p, {"IF"}).ok -> IfStatement(Matches(p, {"IF"}).p)
      [] Matches(p, {"WHILE"}).ok -> WhileStatement(Matches(p, {"WHILE"}).p)
      [] Matches(p, {"FOR"}).ok -> ForStatement(Matches(p, {"FOR"}).p)
      [] Matches(p, {"RETURN"}).ok -> ReturnStatement(Matches(p, {"RETURN"}).p)
      [] Matches(p, {"LEFT_BRACE"}).ok -> BlockStatement(Matches(p, {"LEFT_BRACE"}).p)
      [] OTHER -> ExpressionStatement(p)

\* function()'s parameter loop.
FunctionParamsLoop(p, params) ==
    LET p0 == IF Len(params) >= MaxParams THEN ParserError(p) ELSE p
        param == Consume(p0, "IDENTIFIER")
        comma == Matches(param.p, {"COMMA"})
    IN  CASE ~param.ok -> param
          [] comma.ok -> FunctionParamsLoop(comma.p, Append(params, param.v.lexeme))
          [] OTHER -> POk(param.p, Append(params, param.v.lexeme))

\* function(kind): a Stmt::Function(Fun {name, params, body}).
Function(p, kind) ==
    LET name == Consume(p, "IDENTIFIER")
        open == Consume(name.p, "LEFT_PARAN")
        params == IF ~Check(open.p, "RIGHT_PARAN")
                  THEN FunctionParamsLoop(open.p, <<>>)
                  ELSE POk(open.p, <<>>)
        close == Consume(params.p, "RIGHT_PARAN")
        brace == Consume(close.p, "LEFT_BRACE")
        body == Block(brace.p)
    IN  CASE ~name.ok -> name
          [] ~open.ok -> open
          [] ~params.ok -> params
          [] ~close.ok -> close
          [] ~brace.ok -> brace
          [] ~body.ok -> body
          [] OTHER -> POk(body.p, [k |-> "Function", name |-> name.v.lexeme,
                                   params |-> params.v, body |-> body.v])

\* class_declaration()'s method loop.
ClassMethodsLoop(p, methods) ==
    LET fun == ParseRule("Function", p, "method")
    IN  CASE Check(p, "RIGHT_BRACE") \/ IsAtEnd(p) -> POk(p, methods)
          [] ~fun.ok -> fun
          [] OTHER -> ClassMethodsLoop(fun.p, Append(methods, fun.v))

ClassDeclaration(p) ==
    LET name == Consume(p, "IDENTIFIER")
        less == Matches(name.p, {"LESS"})
        super_name == IF less.ok THEN Consume(less.p, "IDENTIFIER") ELSE POk(name.p, NoNode)
        super_class == IF less.ok THEN Variable(super_name.v.lexeme) ELSE NoNode
        brace == Consume(super_name.p, "LEFT_BRACE")
        methods == ClassMethodsLoop(brace.p, <<>>)
        close == Consume(methods.p, "RIGHT_BRACE")
    IN  CASE ~name.ok -> name
          [] ~super_name.ok -> super_name
          [] ~brace.ok -> brace
          [] ~methods.ok -> methods
          [] ~close.ok -> close
          [] OTHER -> POk(close.p, [k |-> "Class", name |-> name.v.lexeme,
                                    super_class |-> super_class, methods |-> methods.v])

\* declaration()'s match on the statement's result: [p, some, v]; on a parse
\* error the error is counted, the parser synchronizes and no statement is returned.
DeclarationResult(stmt) ==
    IF stmt.ok
    THEN [p |-> stmt.p, some |-> TRUE, v |-> stmt.v]
    ELSE [p |-> Synchronize(ParserError(stmt.p)), some |-> FALSE, v |-> NoNode]

Declaration(p) ==
    DeclarationResult(
        CASE Matches(p, {"CLASS"}).ok -> ClassDeclaration(Matches(p, {"CLASS"}).p)
          [] Matches(p, {"FUN"}).ok -> ParseRule("Function", Matches(p, {"FUN"}).p, "function")
          [] Matches(p, {"VAR"}).ok -> VarDeclaration(Matches(p, {"VAR"}).p)
          [] OTHER -> Statement(p))

\* parse()'s loop: declarations until the end of input.
ParseLoop(p, statements) ==
    LET d == ParseRule("Declaration", p, NoNode)
    IN  CASE IsAtEnd(p) -> [p |-> p, v |-> statements]
          [] d.some -> ParseLoop(d.p, Append(statements, d.v))
          [] OTHER -> ParseLoop(d.p, statements)

\* Calls of a parse function from another one's body go through ParseRule,
\* which selects the function by its name; arg is the second argument of
\* those that take one.
ParseRule(rule, p, arg) ==
    CASE rule = "Expression" -> Expression(p)
      [] rule = "And" -> And(p)
      [] rule = "Equality" -> Equality(p)
      [] rule = "Comparison" -> Comparison(p)
      [] rule = "Term" -> Term(p)
      [] rule = "Factor" -> Factor(p)
      [] rule = "Unary" -> Unary(p)
      [] rule = "Statement" -> Statement(p)
      [] rule = "Declaration" -> Declaration(p)
      [] rule = "FinishCall" -> FinishCall(p, arg)
      [] rule = "Function" -> Function(p, arg)
      [] rule = "VarDeclaration" -> VarDeclaration(p)
      [] rule = "ExpressionStatement" -> ExpressionStatement(p)
      [] rule = "ParseLoop" -> ParseLoop(p, arg)

\* Parser::new(tokens) followed by parse(): [p, v] with v the statements.
Parse(toks) == ParseRule("ParseLoop", [tokens |-> toks, current |-> 0, errs |-> 0], <<>>)

(***************************************************************************)
(* Resolver (resolver.rs).  The resolver state is                          *)
(*   rs = [scopes, class_scopes, current_function, current_class, errs,    *)
(*         log]                                                            *)
(* scopes is the stack of local scopes, each a map name -> defined;        *)
(* errs is num_of_resolver_errs.  log is a history of the resolver's own   *)
(* decisions: one entry per node whose depth it wrote, with the names of   *)
(* the scope stack at that point.  Every resolve function returns [v, rs]: *)
(* the new state and the node as patched in place.                         *)
(***************************************************************************)
Put(m, key, val) == [x \in DOMAIN m \cup {key} |-> IF x = key THEN val ELSE m[x]]

EmptyMap == [x \in {} |-> 0]

NewResolver ==
    [scopes |-> <<>>, class_scopes |-> <<>>, current_function |-> "None",
     current_class |-> "None", errs |-> 0, log |-> <<>>]

\* Resolver::error: count the error (the message goes to stderr).
ResolverError(rs) == [rs EXCEPT !.errs = @ + 1]

BeginScope(rs) == [rs EXCEPT !.scopes = Append(@, EmptyMap)]

EndScope(rs) ==
    IF Len(rs.scopes) = 0 THEN rs
    ELSE [rs EXCEPT !.scopes = SubSeq(@, 1, Len(@) - 1)]

\* Insert name -> defined into the innermost scope.
InsertTop(rs, name, defined) ==
    [rs EXCEPT !.scopes[Len(rs.scopes)] = Put(@, name, defined)]

\* A declare that marks the name as defined at once.
DeclareDefined(rs, name) ==
    IF Len(rs.scopes) = 0 THEN rs
    ELSE IF name \notin DOMAIN rs.scopes[Len(rs.scopes)]
    THEN InsertTop(rs, name, TRUE)
    ELSE ResolverError(rs)

Declare(rs, name) ==
    IF Len(rs.scopes) = 0 THEN rs
    ELSE IF name \notin DOMAIN rs.scopes[Len(rs.scopes)]
    THEN InsertTop(rs, name, FALSE)
    ELSE ResolverError(rs)

Define(rs, name) ==
    IF Len(rs.scopes) = 0 THEN rs ELSE InsertTop(rs, name, TRUE)

\* A scan without the rev(): from the outermost scope inward.
ResolveLocalDepthFromOutermost(scopes, name, i) ==
    IF i >= Len(scopes) THEN None
    ELSE IF name \in DOMAIN scopes[i + 1] THEN i
    ELSE ResolveLocalDepthFrom(scopes, name, i + 1)

\* The scan of resolve_local_depth: scopes.iter().rev().enumerate(), from hop i.
ResolveLocalDepthFrom(scopes, name, i) ==
    IF i >= Len(scopes) THEN None
    ELSE IF name \in DOMAIN scopes[Len(scopes) - i] THEN i
    ELSE ResolveLocalDepthFrom(scopes, name, i + 1)

ResolveLocalDepth(rs, name) == ResolveLocalDepthFrom(rs.scopes, name, 0)

\* History: the resolver wrote depth into a node of kind k naming name.
Logged(rs, k, name, depth) ==
    [rs EXCEPT !.log = Append(@, [k |-> k, name |-> name, depth |-> depth,
                                  scopes |-> [i \in 1..Len(rs.scopes) |-> DOMAIN rs.scopes[i]]])]

BeginClassScope(rs, name, super_class) ==
    [rs EXCEPT !.class_scopes =
        Append(@, [class_name |-> name,
                   super_class |-> IF super_class.k = "None" THEN "" ELSE super_class.name,
                   methods |-> {}])]

EndClassScope(rs) ==
    IF Len(rs.class_scopes) = 0 THEN rs
    ELSE [rs EXCEPT !.class_scopes = SubSeq(@, 1, Len(@) - 1)]

\* Resolver::define_method with ClassData::define_method.
DefineMethod(rs, name) ==
    IF name \in rs.class_scopes[Len(rs.class_scopes)].methods
    THEN ResolverError(rs)
    ELSE [rs EXCEPT !.class_scopes[Len(rs.class_scopes)].methods = @ \cup {name}]

\* resolve_expr over arguments[i..]: [v, rs] with v the patched arguments.
ResolveExprs(rs, exprs, i) ==
    IF i > Len(exprs) THEN [v |-> exprs, rs |-> rs]
    ELSE LET r == ResolveExpr(rs, exprs[i])
         IN  ResolveExprs(r.rs, [exprs EXCEPT ![i] = r.v], i + 1)

ResolveExpr(rs, expr) ==
    CASE expr.k = "Variable" ->
            LET rs1 == IF Len(rs.scopes) > 0
                          /\ expr.name \in DOMAIN rs.scopes[Len(rs.scopes)]
                          /\ rs.scopes[Len(rs.scopes)][expr.name] = FALSE
                       THEN ResolverError(rs) ELSE rs
                depth == ResolveLocalDepth(rs1, expr.name)
            IN  [v |-> [expr EXCEPT !.depth = depth],
                 rs |-> Logged(rs1, "Variable", expr.name, depth)]
      [] expr.k = "Super" ->
            IF rs.current_class = "SubClass"
            THEN LET depth == ResolveLocalDepth(rs, "super")
                 IN  [v |-> [expr EXCEPT !.depth = depth],
                      rs |-> Logged(rs, "Super", "super", depth)]
            ELSE [v |-> expr, rs |-> ResolverError(rs)]
      [] expr.k = "This" ->
            IF rs.current_class # "None"
            THEN LET depth == ResolveLocalDepth(rs, "this")
                 IN  [v |-> [expr EXCEPT !.depth = depth],
                      rs |-> Logged(rs, "This", "this", depth)]
            ELSE [v |-> expr, rs |-> ResolverError(rs)]
      [] expr.k = "Assign" ->
            LET value == ResolveExpr(rs, expr.value)
                depth == ResolveLocalDepth(value.rs, expr.name)
            IN  [v |-> [expr EXCEPT !.value = value.v, !.depth = depth],
                 rs |-> Logged(value.rs, "Assign", expr.name, depth)]
      [] expr.k = "Litral" -> [v |-> expr, rs |-> rs]
      [] expr.k = "Unary" ->
            LET right == ResolveExpr(rs, expr.right)
            IN  [v |-> [expr EXCEPT !.right = right.v], rs |-> right.rs]
      [] expr.k \in {"Binary", "Logical"} ->
            LET left == ResolveExpr(rs, expr.left)
                right == ResolveExpr(left.rs, expr.right)
            IN  [v |-> [expr EXCEPT !.left = left.v, !.right = right.v], rs |-> right.rs]
      [] expr.k = "Grouping" ->
            LET inner == ResolveExpr(rs, expr.expression)
            IN  [v |-> [expr EXCEPT !.expression = inner.v], rs |-> inner.rs]
      [] expr.k = "Call" ->
            LET callee == ResolveExpr(rs, expr.callee)
                arguments == ResolveExprs(callee.rs, expr.arguments, 1)
            IN  [v |-> [expr EXCEPT !.callee = callee.v, !.arguments = arguments.v],
                 rs |-> arguments.rs]
      [] expr.k = "Get" ->
            LET object == ResolveExpr(rs, expr.object)
            IN  [v |-> [expr EXCEPT !.object = object.v], rs |-> object.rs]
      [] expr.k = "Set" ->
            LET object == ResolveExpr(rs, expr.object)
                value == ResolveExpr(object.rs, expr.value)
            IN  [v |-> [expr EXCEPT !.object = object.v, !.value = value.v], rs |-> value.rs]

\* resolve_stmts over stmts[i..]: [v, rs] with v the patched statements.
ResolveStmtsFrom(rs, ss, i) ==
    IF i > Len(ss) THEN [v |-> ss, rs |-> rs]
    ELSE LET r == ResolveStmt(rs, ss[i])
         IN  ResolveStmtsFrom(r.rs, [ss EXCEPT ![i] = r.v], i + 1)

ResolveStmts(rs, ss) == ResolveStmtsFrom(rs, ss, 1)

\* The parameters of a function, declared and defined in order.
DeclareParams(rs, params) ==
    LET RECURSIVE Go(_, _)
        Go(r, i) == IF i > Len(params) THEN r
                    ELSE Go(Define(Declare(r, params[i]), params[i]), i + 1)
    IN  Go(rs, 1)

\* A resolve_function that does not end the scope it begins.
ResolveFunctionNoEndScope(rs, fun, fun_type) ==
    LET enclosing_function == rs.current_function
        rs1 == BeginScope([rs EXCEPT !.current_function = fun_type])
        rs2 == DeclareParams(rs1, fun.params)
        body == ResolveStmts(rs2, fun.body)
    IN  [v |-> [fun EXCEPT !.body = body.v],
         rs |-> [body.rs EXCEPT !.current_function = enclosing_function]]

ResolveFunction(rs, fun, fun_type) ==
    LET enclosing_function == rs.current_function
        rs1 == BeginScope([rs EXCEPT !.current_function = fun_type])
        rs2 == DeclareParams(rs1, fun.params)
        body == ResolveStmts(rs2, fun.body)
        rs3 == EndScope(body.rs)
    IN  [v |-> [fun EXCEPT !.body = body.v],
         rs |-> [rs3 EXCEPT !.current_function = enclosing_function]]

\* The methods loop of resolve_methods, over methods[i..].
ResolveMethodsFrom(rs, methods, i) ==
    IF i > Len(methods) THEN [v |-> methods, rs |-> rs]
    ELSE LET declaration == IF methods[i].name = "init" THEN "Initializer" ELSE "Method"
             r == ResolveFunction(DefineMethod(rs, methods[i].name), methods[i], declaration)
         IN  ResolveMethodsFrom(r.rs, [methods EXCEPT ![i] = r.v], i + 1)

\* A resolve_methods that leaves current_class as the class set it.
ResolveMethodsNoRestore(rs, super_class, methods) ==
    LET has_super == super_class.k # "None"
        rs1 == [rs EXCEPT !.current_class = IF has_super THEN "SubClass" ELSE "Class"]
        sup == IF has_super THEN ResolveExpr(rs1, super_class)
               ELSE [v |-> super_class, rs |-> rs1]
        rs2 == IF has_super THEN InsertTop(BeginScope(sup.rs), "super", TRUE) ELSE sup.rs
        rs3 == InsertTop(BeginScope(rs2), "this", TRUE)
        ms == ResolveMethodsFrom(rs3, methods, 1)
        rs4 == EndScope(ms.rs)
        rs5 == IF has_super THEN EndScope(rs4) ELSE rs4
    IN  [super_class |-> sup.v, methods |-> ms.v, rs |-> rs5]

\* resolve_methods: [super_class, methods, rs].
ResolveMethods(rs, super_class, methods) ==
    LET enclosing_class == rs.current_class
        has_super == super_class.k # "None"
        rs1 == [rs EXCEPT !.current_class = IF has_super THEN "SubClass" ELSE "Class"]
        sup == IF has_super THEN ResolveExpr(rs1, super_class)
               ELSE [v |-> super_class, rs |-> rs1]
        rs2 == IF has_super THEN InsertTop(BeginScope(sup.rs), "super", TRUE) ELSE sup.rs
        rs3 == InsertTop(BeginScope(rs2), "this", TRUE)
        ms == ResolveMethodsFrom(rs3, methods, 1)
        rs4 == EndScope(ms.rs)
        rs5 == IF has_super THEN EndScope(rs4) ELSE rs4
    IN  [super_class |-> sup.v, methods |-> ms.v,
         rs |-> [rs5 EXCEPT !.current_class = enclosing_class]]

ResolveStmt(rs, stmt) ==
    CASE stmt.k = "Class" ->
            LET rs1 == BeginClassScope(Define(Declare(rs, stmt.name), stmt.name),
                                       stmt.name, stmt.super_class)
                rs2 == IF stmt.super_class.k # "None" /\ stmt.super_class.name = stmt.name
                       THEN ResolverError(rs1) ELSE rs1
                r == ResolveMethods(rs2, stmt.super_class, stmt.methods)
            IN  [v |-> [stmt EXCEPT !.super_class = r.super_class, !.methods = r.methods],
                 rs |-> EndClassScope(r.rs)]
      [] stmt.k = "Var" ->
            LET rs1 == Declare(rs, stmt.name)
                init == IF stmt.expression.k # "None" THEN ResolveExpr(rs1, stmt.expression)
                        ELSE [v |-> stmt.expression, rs |-> rs1]
            IN  [v |-> [stmt EXCEPT !.expression = init.v], rs |-> Define(init.rs, stmt.name)]
      [] stmt.k = "Function" ->
            ResolveFunction(Define(Declare(rs, stmt.name), stmt.name), stmt, "Function")
      [] stmt.k = "Block" ->
            LET body == ResolveStmts(BeginScope(rs), stmt.statements)
            IN  [v |-> [stmt EXCEPT !.statements = body.v], rs |-> EndScope(body.rs)]
      [] stmt.k \in {"PrintStmt", "ExpressionStmt"} ->
            LET e == ResolveExpr(rs, stmt.expression)
            IN  [v |-> [stmt EXCEPT !.expression = e.v], rs |-> e.rs]
      [] stmt.k = "IfStmt" ->
            LET condition == ResolveExpr(rs, stmt.condition)
                then_branch == ResolveStmt(condition.rs, stmt.then_branch)
                else_branch == IF stmt.else_branch.k # "None"
                               THEN ResolveStmt(then_branch.rs, stmt.else_branch)
                               ELSE [v |-> stmt.else_branch, rs |-> then_branch.rs]
            IN  [v |-> [stmt EXCEPT !.condition = condition.v,
                                    !.then_branch = then_branch.v,
                                    !.else_branch = else_branch.v],
                 rs |-> else_branch.rs]
      [] stmt.k = "WhileStmt" ->
            LET condition == ResolveExpr(rs, stmt.condition)
                body == ResolveStmt(condition.rs, stmt.body)
            IN  [v |-> [stmt EXCEPT !.condition = condition.v, !.body = body.v],
                 rs |-> body.rs]
      [] stmt.k = "Return" ->
            LET value == ResolveExpr(rs, stmt.value)
            IN  CASE rs.current_function = "None" -> [v |-> stmt, rs |-> ResolverError(rs)]
                  [] stmt.value.k = "None" -> [v |-> stmt, rs |-> rs]
                  [] rs.current_function = "Initializer" ->
                        [v |-> stmt, rs |-> ResolverError(rs)]
                  [] OTHER -> [v |-> [stmt EXCEPT !.value = value.v], rs |-> value.rs]

(***************************************************************************)
(* Runtime values (runtime_value.rs).  A value is [t, n, s]:               *)
(*   Nil; Boolean (n is 0 or 1); Number (n); String (s);                   *)
(*   Callable: t is "Function" (n indexes funs), "Class" (n indexes        *)
(*   classes) or "Native"; Instance (n indexes insts).                     *)
(***************************************************************************)
Val(t, n, s) == [t |-> t, n |-> n, s |-> s]

Nil == Val("Nil", 0, "")

Boolean(b) == Val("Boolean", IF b THEN 1 ELSE 0, "")

Number(n) == Val("Number", n, "")

IsCallable(v) == v.t \in {"Function", "Class", "Native"}

\* is_truthy / From<RuntimeValue> for bool.
IsTruthy(v) == ~(v.t = "Nil" \/ (v.t = "Boolean" /\ v.n = 0))

\* impl PartialEq for RuntimeValue: eq.
ValueEq(a, b) ==
    CASE a.t = "String" /\ b.t = "String" -> a.s = b.s
      [] a.t = "Number" /\ b.t = "Number" -> a.n = b.n
      [] a.t = "Boolean" /\ b.t = "Boolean" -> a.n = b.n
      [] a.t = "Nil" /\ b.t = "Nil" -> TRUE
      [] OTHER -> FALSE

(***************************************************************************)
(* Interpreter state.                                                      *)
(*   st = [envs, funs, classes, insts, environment, globals, out, log]     *)
(* envs, funs, classes and insts are the heaps of the reference-counted    *)
(* objects, indexed from 1 (0 is "no object"); environment and globals are *)
(* the interpreter's two handles; out is standard output, one line per     *)
(* println.  log is a history of what the interpreter did.                 *)
(* An evaluation returns [st, k, v, msg]: k is "ok" (v is the value),      *)
(* "err" (a RuntimeError), "ret" (an EarlyReturn carrying v) or "panic".   *)
(***************************************************************************)
ROk(st, v) == [st |-> st, k |-> "ok", v |-> v, msg |-> ""]

RErr(st, msg) == [st |-> st, k |-> "err", v |-> Nil, msg |-> msg]

RRet(st, v) == [st |-> st, k |-> "ret", v |-> v, msg |-> ""]

RPanic(st, msg) == [st |-> st, k |-> "panic", v |-> Nil, msg |-> msg]

Note(st, entry) == [st EXCEPT !.log = Append(@, entry)]

\* Environment::new / new_with, placed on the heap: [st, env].
NewEnv(st, enclosing) ==
    [st |-> [st EXCEPT !.envs = Append(@, [values |-> EmptyMap, enclosing |-> enclosing])],
     env |-> Len(st.envs) + 1]

\* Environment::define.
EnvDefine(st, env, name, value) ==
    [st EXCEPT !.envs[env].values = Put(@, name, value)]

\* Environment::get: by name, from env outward.
EnvGet(st, env, name) ==
    IF name \in DOMAIN st.envs[env].values THEN ROk(st, st.envs[env].values[name])
    ELSE IF st.envs[env].enclosing = 0 THEN RErr(st, "Undefined variable")
    ELSE EnvGet(st, st.envs[env].enclosing, name)

\* A variant of Environment::assign that binds the name in the given frame when
\* the frame does not hold it and has an enclosing frame.
EnvAssignInGivenFrame(st, env, name, value) ==
    IF name \in DOMAIN st.envs[env].values
    THEN ROk([st EXCEPT !.envs[env].values[name] = value], value)
    ELSE IF st.envs[env].enclosing = 0 THEN RErr(st, "Variable is not declared")
    ELSE ROk(EnvDefine(st, env, name, value), value)

\* Environment::assign: by name, from env outward.
EnvAssign(st, env, name, value) ==
    IF name \in DOMAIN st.envs[env].values
    THEN ROk([st EXCEPT !.envs[env].values[name] = value], value)
    ELSE IF st.envs[env].enclosing = 0 THEN RErr(st, "Variable is not declared")
    ELSE EnvAssign(st, st.envs[env].enclosing, name, value)

\* The loop of Environment::ancestor: 0 when an unwrap of enclosing meets None.
AncestorLoop(st, environment, i, depth) ==
    IF environment = 0 THEN 0
    ELSE IF i < depth THEN AncestorLoop(st, st.envs[environment].enclosing, i + 1, depth)
    ELSE environment

Ancestor(st, env, depth) == AncestorLoop(st, st.envs[env].enclosing, 1, depth)

\* env_at_depth / env_mut_at_depth: the frame depth hops up, 0 when there is none.
EnvAtDepth(st, env, depth) == IF depth = 0 THEN env ELSE Ancestor(st, env, depth)

\* Environment::get_at.
GetAt(st, env, name, depth) ==
    LET target == EnvAtDepth(st, env, depth) IN
    IF target = 0 THEN RPanic(st, "ancestor")
    ELSE IF name \notin DOMAIN st.envs[target].values THEN RPanic(st, "get_at")
    ELSE ROk(Note(st, [ev |-> "get_at", name |-> name, depth |-> depth]),
             st.envs[target].values[name])

\* Environment::assign_at: inserts into the frame depth hops up.
AssignAt(st, env, name, value, depth) ==
    LET target == EnvAtDepth(st, env, depth) IN
    IF target = 0 THEN RPanic(st, "ancestor")
    ELSE ROk(Note(EnvDefine(st, target, name, value),
                  [ev |-> "assign_at", name |-> name, depth |-> depth,
                   held |-> name \in DOMAIN st.envs[target].values]),
             value)

\* Environment::take_enclosing: [st, enclosing].
TakeEnclosing(st, env) ==
    [st |-> [st EXCEPT !.envs[env].enclosing = 0], enclosing |-> st.envs[env].enclosing]

\* Interpreter::new with define_globals.
NewInterpreter ==
    [envs |-> <<[values |-> Put(EmptyMap, "clock", Val("Native", 0, "clock")),
                 enclosing |-> 0]>>,
     funs |-> <<>>, classes |-> <<>>, insts |-> <<>>,
     environment |-> 1, globals |-> 1, out |-> <<>>, log |-> <<>>]

\* LoxFunction::new, placed on the heap: [st, fun].
NewFunction(st, declaration, closure, is_initializer) ==
    [st |-> [st EXCEPT !.funs = Append(@, [name |-> declaration.name,
                                            params |-> declaration.params,
                                            body |-> declaration.body,
                                            closure |-> closure,
                                            is_initializer |-> is_initializer])],
     fun |-> Len(st.funs) + 1]

\* A bind that makes no frame for this: the bound function keeps the closure.
BindWithoutFrame(st, fun, instance) ==
    NewFunction(st, st.funs[fun], st.funs[fun].closure, st.funs[fun].is_initializer)

\* LoxFunction::bind: a new function whose closure is a fresh frame holding this.
Bind(st, fun, instance) ==
    LET e == NewEnv(st, st.funs[fun].closure)
        st1 == EnvDefine(e.st, e.env, "this", Val("Instance", instance, ""))
    IN  NewFunction(st1, st.funs[fun], e.env, st.funs[fun].is_initializer)

\* LoxClassDefinition::find_method: the function, or 0 for None.
FindMethod(st, class, method_name) ==
    IF st.classes[class].super_class # 0
    THEN FindMethod(st, st.classes[class].super_class, method_name)
    ELSE IF method_name \in DOMAIN st.classes[class].methods
    THEN st.classes[class].methods[method_name]
    ELSE 0

\* ClassInstance::get: [st, found, v]; a field, or else a method bound to the instance.
InstanceGet(st, instance, name) ==
    IF name \in DOMAIN st.insts[instance].fields
    THEN [st |-> st, found |-> TRUE, v |-> st.insts[instance].fields[name]]
    ELSE LET method == FindMethod(st, st.insts[instance].kclass, name) IN
         IF method # 0
         THEN LET b == Bind(st, method, instance)
              IN  [st |-> b.st, found |-> TRUE, v |-> Val("Function", b.fun, "")]
         ELSE [st |-> st, found |-> FALSE, v |-> Nil]

\* ClassInstance::set.
InstanceSet(st, instance, name, value) ==
    [st EXCEPT !.insts[instance].fields = Put(@, name, value)]

\* LoxCallable::arity.
Arity(st, callee) ==
    CASE callee.t = "Function" -> Len(st.funs[callee.n].params)
      [] callee.t = "Class" ->
            LET initializer == FindMethod(st, callee.n, "init")
            IN  IF initializer # 0 THEN Len(st.funs[initializer].params) ELSE 0
      [] callee.t = "Native" -> 0

\* impl Display for RuntimeValue.
Display(st, v) ==
    CASE v.t = "Nil" -> "Nil"
      [] v.t = "Number" -> ToString(v.n)
      [] v.t = "String" -> v.s
      [] v.t = "Boolean" -> IF v.n = 1 THEN "true" ELSE "false"
      [] v.t = "Function" -> "<fn " \o st.funs[v.n].name \o ">"
      [] v.t = "Class" -> "<class " \o st.classes[v.n].name \o ">"
      [] v.t = "Native" -> "<native fn clock>"
      [] v.t = "Instance" -> "<instance of " \o st.classes[st.insts[v.n].kclass].name \o ">"

(***************************************************************************)
(* Operators on values (runtime_value.rs): [ok, v].                        *)
(***************************************************************************)
\* The order of String values (Rust's byte order) on the strings the programs use.
StringOrder == <<"", "A", "B", "global", "local">>

StringRank(str) == CHOOSE i \in 1..Len(StringOrder) : StringOrder[i] = str

\* impl PartialOrd for RuntimeValue: lt, le, gt, ge.
ValueLt(a, b) ==
    CASE a.t = "String" /\ b.t = "String" -> StringRank(a.s) < StringRank(b.s)
      [] a.t \in {"Number", "Boolean"} /\ b.t = a.t -> a.n < b.n
      [] OTHER -> FALSE

ValueLe(a, b) ==
    CASE a.t = "String" /\ b.t = "String" -> StringRank(a.s) <= StringRank(b.s)
      [] a.t \in {"Number", "Boolean"} /\ b.t = a.t -> a.n <= b.n
      [] a.t = "Nil" /\ b.t = "Nil" -> TRUE
      [] OTHER -> FALSE

ValueGt(a, b) ==
    CASE a.t = "String" /\ b.t = "String" -> StringRank(a.s) > StringRank(b.s)
      [] a.t \in {"Number", "Boolean"} /\ b.t = a.t -> a.n > b.n
      [] OTHER -> FALSE

ValueGe(a, b) ==
    CASE a.t = "String" /\ b.t = "String" -> StringRank(a.s) >= StringRank(b.s)
      [] a.t \in {"Number", "Boolean"} /\ b.t = a.t -> a.n >= b.n
      [] a.t = "Nil" /\ b.t = "Nil" -> TRUE
      [] OTHER -> FALSE

VOk(v) == [ok |-> TRUE, v |-> v]

VErr == [ok |-> FALSE, v |-> Nil]

\* impl Neg / Not.
ValueNeg(a) == IF a.t = "Number" THEN VOk(Number(0 - a.n)) ELSE VErr

ValueNot(a) == IF a.t = "Boolean" THEN VOk(Boolean(a.n = 0)) ELSE VErr

\* impl Add / Sub / Mul / Div.
ValueAdd(a, b) ==
    CASE a.t = "Number" /\ b.t = "Number" -> VOk(Number(a.n + b.n))
      [] a.t = "String" /\ b.t = "String" -> VOk(Val("String", 0, a.s \o b.s))
      [] OTHER -> VErr

ValueSub(a, b) ==
    IF a.t = "Number" /\ b.t = "Number" THEN VOk(Number(a.n - b.n)) ELSE VErr

ValueMul(a, b) ==
    IF a.t = "Number" /\ b.t = "Number" THEN VOk(Number(a.n * b.n)) ELSE VErr

\* Division of whole numbers; the quotient is whole in the programs modelled.
ValueDiv(a, b) ==
    IF a.t = "Number" /\ b.t = "Number" /\ b.n # 0 THEN VOk(Number(a.n \div b.n)) ELSE VErr

\* The operator match of Expr::Binary.
ApplyBinary(operator, left, right) ==
    CASE operator = "MINUS" -> ValueSub(left, right)
      [] operator = "PLUS" -> ValueAdd(left, right)
      [] operator = "STAR" -> ValueMul(left, right)
      [] operator = "SLASH" -> ValueDiv(left, right)
      [] operator = "GREATER" -> VOk(Boolean(ValueGt(left, right)))
      [] operator = "GREATER_EQUAL" -> VOk(Boolean(ValueGe(left, right)))
      [] operator = "LESS" -> VOk(Boolean(ValueLt(left, right)))
      [] operator = "LESS_EQUAL" -> VOk(Boolean(ValueLe(left, right)))
      [] operator = "BANG_EQUAL" -> ValueNot(Boolean(ValueEq(left, right)))
      [] operator = "EQUAL_EQUAL" -> VOk(Boolean(ValueEq(left, right)))
      [] OTHER -> VErr

(***************************************************************************)
(* Interpreter (interpreter.rs, lox_function.rs, lox_class.rs).            *)
(***************************************************************************)
\* An execute_block that returns early on an Err, before restoring the environment.
ExecuteBlockNoRestoreOnErr(st, statements, env) ==
    LET old_environment == st.environment
        r == ExecuteStmtsFrom([st EXCEPT !.environment = env], statements, 1)
        st1 == IF r.k = "ok" THEN [r.st EXCEPT !.environment = old_environment] ELSE r.st
    IN  [r EXCEPT !.st = Note(st1, [ev |-> "block", before |-> old_environment,
                                    after |-> st1.environment, k |-> r.k])]

\* execute_block: run the statements with environment set to env and restore it.
ExecuteBlock(st, statements, env) ==
    LET old_environment == st.environment
        r == ExecuteStmtsFrom([st EXCEPT !.environment = env], statements, 1)
        st1 == [r.st EXCEPT !.environment = old_environment]
    IN  [r EXCEPT !.st = Note(st1, [ev |-> "block", before |-> old_environment,
                                    after |-> st1.environment, k |-> r.k])]

\* The parameters of a call, defined in the call's frame in order.
DefineParams(st, env, params, arguments) ==
    LET RECURSIVE Go(_, _)
        Go(s, i) == IF i > Len(arguments) THEN s
                    ELSE Go(EnvDefine(s, env, params[i], arguments[i]), i + 1)
    IN  Go(st, 1)

\* A call that lets the EarlyReturn of the body through to its caller.
CallFunctionNoCatch(st, fun, arguments) ==
    LET f == st.funs[fun]
        e == NewEnv(st, f.closure)
        st1 == Note(DefineParams(e.st, e.env, f.params, arguments),
                    [ev |-> "call", fun |-> fun, frame |-> e.env, closure |-> f.closure])
        r == ExecuteBlock(st1, f.body, e.env)
    IN  CASE r.k = "ok" /\ f.is_initializer -> GetAt(r.st, f.closure, "this", 0)
          [] r.k = "ok" -> ROk(r.st, Nil)
          [] OTHER -> r

\* A call that runs the body in the closure itself, making no frame of its own.
CallFunctionInClosure(st, fun, arguments) ==
    LET f == st.funs[fun]
        st1 == Note(DefineParams(st, f.closure, f.params, arguments),
                    [ev |-> "call", fun |-> fun, frame |-> f.closure, closure |-> f.closure])
        r == ExecuteBlock(st1, f.body, f.closure)
    IN  CASE r.k = "ok" -> ROk(r.st, Nil)
          [] r.k = "ret" -> ROk(r.st, r.v)
          [] OTHER -> r

\* LoxFunction::call.
CallFunction(st, fun, arguments) ==
    LET f == st.funs[fun]
        e == NewEnv(st, f.closure)
        st1 == Note(DefineParams(e.st, e.env, f.params, arguments),
                    [ev |-> "call", fun |-> fun, frame |-> e.env, closure |-> f.closure])
        r == ExecuteBlock(st1, f.body, e.env)
    IN  CASE r.k = "ok" /\ f.is_initializer -> GetAt(r.st, f.closure, "this", 0)
          [] r.k = "ok" -> ROk(r.st, Nil)
          [] r.k = "ret" /\ ~f.is_initializer -> ROk(r.st, r.v)
          [] r.k = "ret" /\ ValueEq(Nil, r.v) -> GetAt(r.st, f.closure, "this", 0)
          [] r.k = "ret" ->
                RPanic(r.st, "Return statement inside constructor can't have value")
          [] OTHER -> r

\* LoxClass::call.
CallClass(st, class, arguments) ==
    LET instance == Len(st.insts) + 1
        st1 == [st EXCEPT !.insts = Append(@, [kclass |-> class, fields |-> EmptyMap])]
        initializer == FindMethod(st1, class, "init")
        st2 == Note(st1, [ev |-> "new", class |-> class, instance |-> instance,
                          initializer |-> initializer, nargs |-> Len(arguments)])
        b == Bind(st2, initializer, instance)
        r == Interpret("CallFunction", b.st, b.fun, arguments)
    IN  CASE initializer = 0 ->
                ROk(Note(st2, [ev |-> "constructed", instance |-> instance,
                               k |-> "ok", v |-> Val("Instance", instance, "")]),
                    Val("Instance", instance, ""))
          [] OTHER ->
                [r EXCEPT !.st = Note(r.st, [ev |-> "constructed", instance |-> instance,
                                             k |-> r.k, v |-> r.v])]

\* NativeFnClock::call: the clock's reading is 0 in the model.
CallNative(st, arguments) ==
    IF Len(arguments) # 0 THEN RErr(st, "calling native clock requires zero arguments")
    ELSE ROk(st, Number(0))

\* The argument loop of evaluate_function_call over arguments[i..]: [st, k, v, msg, vals].
EvaluateArguments(st, arguments, i, vals) ==
    LET r == Evaluate(st, arguments[i])
    IN  CASE i > Len(arguments) ->
                [st |-> st, k |-> "ok", v |-> Nil, msg |-> "", vals |-> vals]
          [] r.k = "ok" -> EvaluateArguments(r.st, arguments, i + 1, Append(vals, r.v))
          [] OTHER -> [st |-> r.st, k |-> r.k, v |-> r.v, msg |-> r.msg, vals |-> vals]

\* evaluate_function_call.
EvaluateFunctionCall(st, callee, arguments) ==
    LET function == Evaluate(st, callee)
        args == EvaluateArguments(function.st, arguments, 1, <<>>)
    IN  CASE function.k # "ok" -> function
          [] ~IsCallable(function.v) ->
                RErr(function.st, "Only functions and classes are callable")
          [] Arity(function.st, function.v) # Len(arguments) ->
                RErr(function.st, "Expected different number of arguments")
          [] args.k # "ok" -> [st |-> args.st, k |-> args.k, v |-> args.v, msg |-> args.msg]
          [] function.v.t = "Function" -> CallFunction(args.st, function.v.n, args.vals)
          [] function.v.t = "Class" -> CallClass(args.st, function.v.n, args.vals)
          [] function.v.t = "Native" -> CallNative(args.st, args.vals)

\* evaluate_super.
EvaluateSuper(st, method, depth) ==
    LET super_class == GetAt(st, st.environment, "super", depth)
        found == FindMethod(super_class.st, super_class.v.n, method)
        this == GetAt(super_class.st, st.environment, "this", depth - 1)
        b == Bind(this.st, found, this.v.n)
    IN  CASE depth = None -> RPanic(st, "'super' can't be in global scope")
          [] super_class.k # "ok" -> super_class
          [] ~IsCallable(super_class.v) -> RErr(super_class.st, "'super' is invalid")
          [] super_class.v.t # "Class" ->
                RPanic(super_class.st, "'super' doesn't refer to a class")
          [] found = 0 -> RErr(super_class.st, "Unable to find property")
          [] this.k # "ok" -> this
          [] this.v.t # "Instance" -> RErr(this.st, "'super' is used outside the class")
          [] OTHER -> ROk(b.st, Val("Function", b.fun, ""))

\* Expr::Unary.
EvaluateUnary(st, expr) ==
    LET right == Evaluate(st, expr.right)
        res == CASE expr.operator = "MINUS" -> ValueNeg(right.v)
                 [] expr.operator = "BANG" -> ValueNot(Boolean(IsTruthy(right.v)))
                 [] OTHER -> VErr
    IN  CASE right.k # "ok" -> right
          [] res.ok -> ROk(right.st, res.v)
          [] OTHER -> RErr(right.st, "unary")

\* Expr::Binary.
EvaluateBinary(st, expr) ==
    LET left == Evaluate(st, expr.left)
        right == Evaluate(left.st, expr.right)
        res == ApplyBinary(expr.operator, left.v, right.v)
    IN  CASE left.k # "ok" -> left
          [] right.k # "ok" -> right
          [] res.ok -> ROk(right.st, res.v)
          [] OTHER -> RErr(right.st, "binary")

\* Expr::Logical, were the right operand evaluated before the left value is
\* looked at.
EvaluateLogicalEager(st, expr) ==
    LET left == Evaluate(st, expr.left)
        right == Evaluate(left.st, expr.right)
    IN  CASE left.k # "ok" -> left
          [] right.k # "ok" -> right
          [] expr.operator = "OR" /\ IsTruthy(left.v) -> [right EXCEPT !.v = left.v]
          [] expr.operator = "AND" /\ ~IsTruthy(left.v) -> [right EXCEPT !.v = left.v]
          [] OTHER -> right

\* Expr::Logical.
EvaluateLogical(st, expr) ==
    LET left == Evaluate(st, expr.left)
    IN  CASE left.k # "ok" -> left
          [] expr.operator = "OR" /\ IsTruthy(left.v) -> left
          [] expr.operator = "AND" /\ ~IsTruthy(left.v) -> left
          [] OTHER -> Evaluate(left.st, expr.right)

\* Expr::Assign.
EvaluateAssign(st, expr) ==
    LET value == Evaluate(st, expr.value)
    IN  CASE value.k # "ok" -> value
          [] expr.depth # None ->
                AssignAt(value.st, value.st.environment, expr.name, value.v, expr.depth)
          [] OTHER -> EnvAssign(value.st, value.st.globals, expr.name, value.v)

\* Expr::Get.
EvaluateGet(st, expr) ==
    LET object == Evaluate(st, expr.object)
        value == InstanceGet(object.st, object.v.n, expr.name)
    IN  CASE object.k # "ok" -> object
          [] object.v.t # "Instance" -> RErr(object.st, "Only instance can have properties")
          [] value.found -> ROk(value.st, value.v)
          [] OTHER -> RErr(value.st, "Property not found in the object")

\* Expr::Set.
EvaluateSet(st, expr) ==
    LET object == Evaluate(st, expr.object)
        value == Evaluate(object.st, expr.value)
    IN  CASE object.k # "ok" -> object
          [] object.v.t # "Instance" ->
                RErr(object.st, "Left of a '.' expression should be an instance")
          [] value.k # "ok" -> value
          [] OTHER -> ROk(InstanceSet(value.st, object.v.n, expr.name, value.v), value.v)

\* A lookup by name from the current environment outward, whatever the depth.
EvaluateVariableByName(st, expr) == EnvGet(st, st.environment, expr.name)

\* Expr::Variable.
EvaluateVariable(st, expr) ==
    IF expr.depth # None THEN GetAt(st, st.environment, expr.name, expr.depth)
    ELSE EnvGet(st, st.globals, expr.name)

Evaluate(st, expr) ==
    CASE expr.k = "Grouping" -> Evaluate(st, expr.expression)
      [] expr.k = "Unary" -> EvaluateUnary(st, expr)
      [] expr.k = "Binary" -> EvaluateBinary(st, expr)
      [] expr.k = "Logical" -> EvaluateLogical(st, expr)
      [] expr.k = "Litral" -> ROk(st, Val(expr.t, expr.n, expr.s))
      [] expr.k = "Variable" -> EvaluateVariable(st, expr)
      [] expr.k = "Super" -> EvaluateSuper(st, expr.method, expr.depth)
      [] expr.k = "This" /\ expr.depth # None ->
            GetAt(st, st.environment, "this", expr.depth)
      [] expr.k = "This" -> RPanic(st, "'this' can't be in global scope")
      [] expr.k = "Assign" -> EvaluateAssign(st, expr)
      [] expr.k = "Call" -> EvaluateFunctionCall(st, expr.callee, expr.arguments)
      [] expr.k = "Get" -> EvaluateGet(st, expr)
      [] expr.k = "Set" -> EvaluateSet(st, expr)

\* The method table of a class statement: one LoxFunction per method, closing over
\* the current environment.  [st, methods].
MethodsMap(st, methods) ==
    LET RECURSIVE Go(_, _, _)
        Go(s, m, i) ==
            IF i > Len(methods) THEN [st |-> s, methods |-> m]
            ELSE LET f == NewFunction(s, methods[i], s.environment, methods[i].name = "init")
                 IN  Go(f.st, Put(m, methods[i].name, f.fun), i + 1)
    IN  Go(st, EmptyMap, 1)

\* Stmt::Class.
ExecuteClass(st, stmt) ==
    LET has_super == stmt.super_class.k # "None"
        sup == IF has_super THEN Interpret("Evaluate", st, stmt.super_class, NoNode) ELSE ROk(st, Nil)
        st1 == EnvDefine(sup.st, sup.st.environment, stmt.name, Nil)
        \* the 'super' environment
        e == NewEnv(st1, st1.environment)
        st2 == IF has_super
               THEN [EnvDefine(e.st, e.env, "super", sup.v) EXCEPT !.environment = e.env]
               ELSE st1
        mm == MethodsMap(st2, stmt.methods)
        \* pop / discard the 'super' environment
        t == TakeEnclosing(mm.st, mm.st.environment)
        st3 == CASE has_super /\ t.enclosing # 0 -> [t.st EXCEPT !.environment = t.enclosing]
                 [] has_super -> t.st
                 [] OTHER -> mm.st
        kclass == Len(st3.classes) + 1
        st4 == [st3 EXCEPT !.classes =
                    Append(@, [name |-> stmt.name,
                               super_class |-> IF has_super THEN sup.v.n ELSE 0,
                               methods |-> mm.methods])]
        r == EnvAssign(st4, st4.environment, stmt.name, Val("Class", kclass, ""))
    IN  CASE sup.k # "ok" -> sup
          [] has_super /\ ~IsCallable(sup.v) -> RErr(sup.st, "Super class must be a class")
          [] has_super /\ sup.v.t # "Class" -> RPanic(sup.st, "Super class must be a class")
          [] r.k = "ok" -> ROk(r.st, Nil)
          [] OTHER -> r

\* The loop of Stmt::WhileStmt.
WhileLoop(st, stmt) ==
    LET condition == Interpret("Evaluate", st, stmt.condition, NoNode)
        body == Interpret("Execute", condition.st, stmt.body, NoNode)
    IN  CASE condition.k # "ok" -> condition
          [] ~IsTruthy(condition.v) -> ROk(condition.st, Nil)
          [] body.k # "ok" -> body
          [] OTHER -> WhileLoop(body.st, stmt)

\* Stmt::Var.
ExecuteVar(st, stmt) ==
    LET value == IF stmt.expression.k # "None" THEN Interpret("Evaluate", st, stmt.expression, NoNode)
                 ELSE ROk(st, Nil)
    IN  IF value.k = "ok"
        THEN ROk(EnvDefine(value.st, value.st.environment, stmt.name, value.v), Nil)
        ELSE value

\* Stmt::ExpressionStmt.
ExecuteExpressionStmt(st, stmt) ==
    LET r == Interpret("Evaluate", st, stmt.expression, NoNode)
    IN  IF r.k = "ok" THEN ROk(r.st, Nil) ELSE r

\* Stmt::IfStmt.
ExecuteIf(st, stmt) ==
    LET condition == Interpret("Evaluate", st, stmt.condition, NoNode)
    IN  CASE condition.k # "ok" -> condition
          [] IsTruthy(condition.v) ->
                Interpret("Execute", condition.st, stmt.then_branch, NoNode)
          [] stmt.else_branch.k # "None" ->
                Interpret("Execute", condition.st, stmt.else_branch, NoNode)
          [] OTHER -> ROk(condition.st, Nil)

\* Stmt::PrintStmt.
ExecutePrint(st, stmt) ==
    LET value == Interpret("Evaluate", st, stmt.expression, NoNode)
    IN  IF value.k = "ok"
        THEN ROk([value.st EXCEPT !.out = Append(@, Display(value.st, value.v))], Nil)
        ELSE value

\* Stmt::Return.
ExecuteReturn(st, stmt) ==
    LET return_value == Interpret("Evaluate", st, stmt.value, NoNode)
    IN  CASE stmt.value.k = "None" -> RRet(Note(st, [ev |-> "return"]), Nil)
          [] return_value.k # "ok" -> return_value
          [] OTHER -> RRet(Note(return_value.st, [ev |-> "return"]), return_value.v)

\* Stmt::Block.
ExecuteBlockStmt(st, stmt) ==
    LET e == NewEnv(st, st.environment)
    IN  ExecuteBlock(e.st, stmt.statements, e.env)

\* Stmt::Function.
ExecuteFunction(st, stmt) ==
    LET f == NewFunction(st, stmt, st.environment, FALSE)
    IN  ROk(EnvDefine(f.st, f.st.environment, stmt.name, Val("Function", f.fun, "")), Nil)

Execute(st, stmt) ==
    CASE stmt.k = "Class" -> ExecuteClass(st, stmt)
      [] stmt.k = "Var" -> ExecuteVar(st, stmt)
      [] stmt.k = "ExpressionStmt" -> ExecuteExpressionStmt(st, stmt)
      [] stmt.k = "IfStmt" -> ExecuteIf(st, stmt)
      [] stmt.k = "WhileStmt" -> WhileLoop(st, stmt)
      [] stmt.k = "PrintStmt" -> ExecutePrint(st, stmt)
      [] stmt.k = "Return" -> ExecuteReturn(st, stmt)
      [] stmt.k = "Block" -> ExecuteBlockStmt(st, stmt)
      [] stmt.k = "Function" -> ExecuteFunction(st, stmt)

\* The try_for_each of interpret() and execute_block over statements[i..].
ExecuteStmtsFrom(st, statements, i) ==
    LET r == Interpret("Execute", st, statements[i], NoNode)
    IN  CASE i > Len(statements) -> ROk(st, Nil)
          [] r.k = "ok" -> ExecuteStmtsFrom(r.st, statements, i + 1)
          [] OTHER -> r

\* A statement's calls of execute and evaluate, and LoxClass::call's call of the
\* initializer, go through Interpret, which selects the function by its name; b
\* is the third argument of the one that takes it.
Interpret(what, st, a, b) ==
    CASE what = "Execute" -> Execute(st, a)
      [] what = "Evaluate" -> Evaluate(st, a)
      [] what = "CallFunction" -> CallFunction(st, a, b)

(***************************************************************************)
(* The sources run.  Each is the word sequence of a Lox program.           *)
(***************************************************************************)
\* print 1 + 2 * 3;
Scenario1 == <<"print", "1", "+", "2", "*", "3", ";">>

\* var a = "global"; { fun show(){ print a; } show(); var a = "local"; show(); }
Scenario2 ==
    <<"var", "a", "=", "'global'", ";",
      "{", "fun", "show", "(", ")", "{", "print", "a", ";", "}",
           "show", "(", ")", ";",
           "var", "a", "=", "'local'", ";",
           "show", "(", ")", ";", "}">>

\* fun fib(n){ if (n<2) return n; return fib(n-1)+fib(n-2); } print fib(4);
Fib ==
    <<"fun", "fib", "(", "n", ")", "{",
         "if", "(", "n", "<", "2", ")", "return", "n", ";",
         "return", "fib", "(", "n", "-", "1", ")", "+", "fib", "(", "n", "-", "2", ")", ";",
      "}", "print", "fib", "(", "4", ")", ";">>

\* class A{ say(){print "A";}} class B < A { say(){ super.say(); print "B";}} B().say();
Scenario4 ==
    <<"class", "A", "{", "say", "(", ")", "{", "print", "'A'", ";", "}", "}",
      "class", "B", "<", "A", "{", "say", "(", ")", "{",
          "super", ".", "say", "(", ")", ";", "print", "'B'", ";", "}", "}",
      "B", "(", ")", ".", "say", "(", ")", ";">>

\* class Box{ init(v){ this.v = v; } get(){ return this.v; }} var b = Box(42); print b.get();
Scenario5 ==
    <<"class", "Box", "{",
          "init", "(", "v", ")", "{", "this", ".", "v", "=", "v", ";", "}",
          "get", "(", ")", "{", "return", "this", ".", "v", ";", "}", "}",
      "var", "b", "=", "Box", "(", "42", ")", ";",
      "print", "b", ".", "get", "(", ")", ";">>

\* var a=0; for (var i=0; i<3; i=i+1) a = a + i; print a;
Scenario6 ==
    <<"var", "a", "=", "0", ";",
      "for", "(", "var", "i", "=", "0", ";", "i", "<", "3", ";", "i", "=", "i", "+", "1", ")",
          "a", "=", "a", "+", "i", ";",
      "print", "a", ";">>

\* fun make(){ var x=0; fun inc(){ x=x+1; return x;} return inc;}
\* var a=make(); var b=make(); print a(); print a(); print b();
MakeInc ==
    <<"fun", "make", "(", ")", "{", "var", "x", "=", "0", ";",
          "fun", "inc", "(", ")", "{", "x", "=", "x", "+", "1", ";", "return", "x", ";", "}",
          "return", "inc", ";", "}",
      "var", "a", "=", "make", "(", ")", ";",
      "var", "b", "=", "make", "(", ")", ";",
      "print", "a", "(", ")", ";", "print", "a", "(", ")", ";", "print", "b", "(", ")", ";">>

\* class A{ say(){print "A";}} class B < A { say(){ print "B";}} B().say();
Override ==
    <<"class", "A", "{", "say", "(", ")", "{", "print", "'A'", ";", "}", "}",
      "class", "B", "<", "A", "{", "say", "(", ")", "{", "print", "'B'", ";", "}", "}",
      "B", "(", ")", ".", "say", "(", ")", ";">>

\* class A{} class B < A { own(){ print "B";}} B().own();
SubclassOwn ==
    <<"class", "A", "{", "}",
      "class", "B", "<", "A", "{", "own", "(", ")", "{", "print", "'B'", ";", "}", "}",
      "B", "(", ")", ".", "own", "(", ")", ";">>

\* class A{ say(){print "A";}} class B < A {} B().say();
Inherit ==
    <<"class", "A", "{", "say", "(", ")", "{", "print", "'A'", ";", "}", "}",
      "class", "B", "<", "A", "{", "}",
      "B", "(", ")", ".", "say", "(", ")", ";">>

\* class A{} class B < A { init(v){ this.v = v; }} var b = B(1); print b.v;
SubclassInit ==
    <<"class", "A", "{", "}",
      "class", "B", "<", "A", "{",
          "init", "(", "v", ")", "{", "this", ".", "v", "=", "v", ";", "}", "}",
      "var", "b", "=", "B", "(", "1", ")", ";", "print", "b", ".", "v", ";">>

\* class P{ init(){ this.x = 1; return; this.x = 2; }} var p = P(); print p.x; print p;
InitBareReturn ==
    <<"class", "P", "{", "init", "(", ")", "{",
          "this", ".", "x", "=", "1", ";", "return", ";",
          "this", ".", "x", "=", "2", ";", "}", "}",
      "var", "p", "=", "P", "(", ")", ";",
      "print", "p", ".", "x", ";", "print", "p", ";">>

\* class P{ init(){ this.x = 1; }} var p = P(); var q = p.init(); q.x = 2; print p.x;
InitAgain ==
    <<"class", "P", "{", "init", "(", ")", "{", "this", ".", "x", "=", "1", ";", "}", "}",
      "var", "p", "=", "P", "(", ")", ";",
      "var", "q", "=", "p", ".", "init", "(", ")", ";",
      "q", ".", "x", "=", "2", ";", "print", "p", ".", "x", ";">>

\* class P{ init(){ return 1; }} print P();
InitReturnValue ==
    <<"class", "P", "{", "init", "(", ")", "{", "return", "1", ";", "}", "}",
      "print", "P", "(", ")", ";">>

\* print 1; return 2;
TopReturn == <<"print", "1", ";", "return", "2", ";">>

\* fun f(){ while (true) { { return 1; } } } print f(); print clock();
ReturnInLoop ==
    <<"fun", "f", "(", ")", "{", "while", "(", "true", ")", "{",
          "{", "return", "1", ";", "}", "}", "}",
      "print", "f", "(", ")", ";", "print", "clock", "(", ")", ";">>

\* { var x = 1; class C { m(){ x = x + 1; return x; } } print C().m(); }
MethodLocal ==
    <<"{", "var", "x", "=", "1", ";",
           "class", "C", "{", "m", "(", ")", "{",
               "x", "=", "x", "+", "1", ";", "return", "x", ";", "}", "}",
           "print", "C", "(", ")", ".", "m", "(", ")", ";", "}">>

\* { var x = 1; class A { m(){ return x; } } class B < A { n(){ return x; } }
\*   print B().m(); print B().n(); }
SubclassLocal ==
    <<"{", "var", "x", "=", "1", ";",
           "class", "A", "{", "m", "(", ")", "{", "return", "x", ";", "}", "}",
           "class", "B", "<", "A", "{", "n", "(", ")", "{", "return", "x", ";", "}", "}",
           "print", "B", "(", ")", ".", "m", "(", ")", ";",
           "print", "B", "(", ")", ".", "n", "(", ")", ";", "}">>

\* print 1; { print 2; print nope; } print 3;
RuntimeErrorInBlock ==
    <<"print", "1", ";", "{", "print", "2", ";", "print", "nope", ";", "}", "print", "3", ";">>

\* fun f(a){ { print a; print -"A"; } } f(1);
RuntimeErrorInCall ==
    <<"fun", "f", "(", "a", ")", "{", "{", "print", "a", ";", "print", "-", "'A'", ";", "}", "}",
      "f", "(", "1", ")", ";">>

\* print 1; var = 2; print 3;
ParseError == <<"print", "1", ";", "var", "=", "2", ";", "print", "3", ";">>

\* print (1;
ParseErrorAtEnd == <<"print", "(", "1", ";">>

\* print 1; { var a = a; }
OwnInitializer == <<"print", "1", ";", "{", "var", "a", "=", "a", ";", "}">>

\* print 1; print this;
ThisOutsideClass == <<"print", "1", ";", "print", "this", ";">>

\* { var a = a = 1; print a; }
AssignInOwnInitializer ==
    <<"{", "var", "a", "=", "a", "=", "1", ";", "print", "a", ";", "}">>

\* the empty source
Empty == <<>>

\* print 1; @ print 2;
UnexpectedCharacter == <<"print", "1", ";", "@", "print", "2", ";">>

\* @ print (1;
UnexpectedThenParseError == <<"@", "print", "(", "1", ";">>

\* fun f() { for (var i = 0; ; i = i + 1) { if (i > 1) return i; } } print f();
ForNoCondition ==
    <<"fun", "f", "(", ")", "{",
          "for", "(", "var", "i", "=", "0", ";", ";", "i", "=", "i", "+", "1", ")", "{",
              "if", "(", "i", ">", "1", ")", "return", "i", ";", "}",
      "}", "print", "f", "(", ")", ";">>

\* for (var i = 0; i < 2; i = i + 1) print i; print 7;
ForEachStep ==
    <<"for", "(", "var", "i", "=", "0", ";", "i", "<", "2", ";", "i", "=", "i", "+", "1", ")",
          "print", "i", ";",
      "print", "7", ";">>

\* fun f() {} class C {} var i = C();
\* print nil; print true; print false; print 'A'; print f; print C; print i;
DisplayForms ==
    <<"fun", "f", "(", ")", "{", "}", "class", "C", "{", "}",
      "var", "i", "=", "C", "(", ")", ";",
      "print", "nil", ";", "print", "true", ";", "print", "false", ";", "print", "'A'", ";",
      "print", "f", ";", "print", "C", ";", "print", "i", ";">>

\* fun f(a) { print a; } var x = 0; f(x = 1, x = 2);
ArityMismatch ==
    <<"fun", "f", "(", "a", ")", "{", "print", "a", ";", "}", "var", "x", "=", "0", ";",
      "f", "(", "x", "=", "1", ",", "x", "=", "2", ")", ";">>

\* fun g(a, b) { print a; print b; } var x = 0; g(x = x + 1, x = x + 2);
ArgumentsInOrder ==
    <<"fun", "g", "(", "a", ",", "b", ")", "{", "print", "a", ";", "print", "b", ";", "}",
      "var", "x", "=", "0", ";",
      "g", "(", "x", "=", "x", "+", "1", ",", "x", "=", "x", "+", "2", ")", ";">>

\* var x = 0; x(x = 1);
NotCallable == <<"var", "x", "=", "0", ";", "x", "(", "x", "=", "1", ")", ";">>

Catalogue ==
    {Scenario1, Scenario2, Fib, Scenario4, Scenario5, Scenario6, MakeInc, Override,
     SubclassOwn, Inherit, SubclassInit, InitBareReturn, InitAgain, InitReturnValue,
     TopReturn, ReturnInLoop, MethodLocal, SubclassLocal, RuntimeErrorInBlock,
     RuntimeErrorInCall, ParseError, ParseErrorAtEnd, OwnInitializer, ThisOutsideClass,
     Empty, UnexpectedCharacter, UnexpectedThenParseError, AssignInOwnInitializer,
     ForNoCondition, ForEachStep, DisplayForms, ArityMismatch, ArgumentsInOrder,
     NotCallable}

(***************************************************************************)
(* Nested-scope programs: a global x, then up to MaxNest levels, each a    *)
(* block, a function, a method of a class, a method inherited by a         *)
(* subclass, or a method of a subclass; a level may declare its own x; the *)
(* innermost level reads x, assigns x, or reads this.                      *)
(***************************************************************************)
MaxNest == 2

LevelKinds == {"block", "fun", "method", "inherited", "submethod"}

Uses == {"read", "assign", "this"}

\* The number literal a level initialises its x with.
LevelWord == <<"1", "2", "3", "4", "5", "6", "7">>

UseWords(use) ==
    CASE use = "read" -> <<"print", "x", ";">>
      [] use = "assign" -> <<"x", "=", "x", "+", "10", ";", "print", "x", ";">>
      [] use = "this" -> <<"print", "this", ";">>

\* One level around the words inner.
Wrap(kind, body) ==
    CASE kind = "block" -> <<"{">> \o body \o <<"}">>
      [] kind = "fun" ->
            <<"fun", "f", "(", ")", "{">> \o body \o <<"}", "f", "(", ")", ";">>
      [] kind = "method" ->
            <<"class", "C", "{", "m", "(", ")", "{">> \o body
                \o <<"}", "}", "C", "(", ")", ".", "m", "(", ")", ";">>
      [] kind = "inherited" ->
            <<"class", "A", "{", "m", "(", ")", "{">> \o body
                \o <<"}", "}", "class", "B", "<", "A", "{", "}",
                     "B", "(", ")", ".", "m", "(", ")", ";">>
      [] kind = "submethod" ->
            <<"class", "A", "{", "m", "(", ")", "{", "print", "0", ";", "}", "}",
              "class", "B", "<", "A", "{", "m", "(", ")", "{">> \o body
                \o <<"}", "}", "B", "(", ")", ".", "m", "(", ")", ";">>

RECURSIVE Nest(_, _, _)
Nest(levels, i, use) ==
    IF i > Len(levels) THEN UseWords(use)
    ELSE Wrap(levels[i].kind,
              (IF levels[i].declares THEN <<"var", "x", "=", LevelWord[i], ";">> ELSE <<>>)
                  \o Nest(levels, i + 1, use))

NestedProgram(levels, use) == <<"var", "x", "=", "0", ";">> \o Nest(levels, 1, use)

NestedPrograms ==
    {NestedProgram(levels, use) :
        levels \in UNION {[1..n -> [kind : LevelKinds, declares : BOOLEAN]] : n \in 1..MaxNest},
        use \in Uses}

(***************************************************************************)
(* Chains of logical operators: print 1 or 2 or ... n; and the same with   *)
(* and, for up to MaxChain operands.                                       *)
(***************************************************************************)
MaxChain == 3

RECURSIVE ChainWords(_, _)
ChainWords(op, n) ==
    IF n = 1 THEN <<LevelWord[1]>> ELSE ChainWords(op, n - 1) \o <<op, LevelWord[n]>>

LogicalChain(op, n) == <<"print">> \o ChainWords(op, n) \o <<";">>

LogicalChains == {LogicalChain(op, n) : op \in {"or", "and"}, n \in 1..MaxChain}

(***************************************************************************)
(* Assignments to what is neither a variable nor a property:               *)
(* print 0; TARGET = 3; print 4;                                           *)
(***************************************************************************)
InvalidTargets ==
    {<<"1">>, <<"1", "+", "2">>, <<"(", "a", ")">>, <<"f", "(", ")">>, <<"this">>}

InvalidAssignment(target) ==
    <<"print", "0", ";">> \o target \o <<"=", "3", ";", "print", "4", ";">>

InvalidAssignments == {InvalidAssignment(target) : target \in InvalidTargets}

(***************************************************************************)
(* Equalities and comparisons of two operands:                             *)
(*   fun f() {} fun g() {} class C {} var i = C(); var j = C();            *)
(*   print X == Y; print X != Y;                                           *)
(* and print X < Y; (or <=, >, >=).                                        *)
(***************************************************************************)
Operands == {"1", "2", "'A'", "'B'", "true", "false", "nil", "f", "g", "C", "i", "j"}

Prelude ==
    <<"fun", "f", "(", ")", "{", "}", "fun", "g", "(", ")", "{", "}",
      "class", "C", "{", "}",
      "var", "i", "=", "C", "(", ")", ";", "var", "j", "=", "C", "(", ")", ";">>

EqualityProgram(x, y) ==
    Prelude \o <<"print", x, "==", y, ";", "print", x, "!=", y, ";">>

EqualityPrograms == {EqualityProgram(x, y) : x \in Operands, y \in Operands}

Comparisons == {"<", "<=", ">", ">="}

Comparands == {"1", "2", "'A'", "'B'", "true", "false", "nil"}

ComparisonProgram(op, x, y) == <<"print", x, op, y, ";">>

ComparisonPrograms ==
    {ComparisonProgram(op, x, y) : op \in Comparisons, x \in Comparands, y \in Comparands}

(***************************************************************************)
(* A logical operator whose right operand has a side effect:               *)
(*   var a = 0; var r = LEFT or (a = 7);    (or and)                       *)
(***************************************************************************)
LeftOperands == {"0", "1", "''", "'A'", "true", "false", "nil", "clock"}

LogicalProgram(op, left) ==
    <<"var", "a", "=", "0", ";", "var", "r", "=", left, op, "(", "a", "=", "7", ")", ";">>

LogicalPrograms == {LogicalProgram(op, left) : op \in {"or", "and"}, left \in LeftOperands}

(***************************************************************************)
(* A class whose superclass is not a class:                                *)
(*   fun f() {} class C {} var i = C(); var n = 1; var s = 'A'; var z;     *)
(*   class B < SUPER {}  print 1;                                          *)
(***************************************************************************)
NotClasses == {"n", "s", "z", "i", "f", "clock"}

SuperclassProgram(super) ==
    <<"fun", "f", "(", ")", "{", "}", "class", "C", "{", "}",
      "var", "i", "=", "C", "(", ")", ";", "var", "n", "=", "1", ";",
      "var", "s", "=", "'A'", ";", "var", "z", ";",
      "class", "B", "<", super, "{", "}", "print", "1", ";">>

SuperclassPrograms == {SuperclassProgram(super) : super \in NotClasses}

(***************************************************************************)
(* Programs with one parse error each: the words, and the words of the     *)
(* statements before the error and from the point the parser is to         *)
(* recover at (after the next ';' or at the next statement keyword).       *)
(***************************************************************************)
RecoveryCases ==
    {[words |-> <<"print", "0", ";", "print", "(", "1", ";", "print", "2", ";">>,
      kept |-> <<"print", "0", ";", "print", "2", ";">>],
     [words |-> <<"print", "0", ";", "print", "1", "x", "print", "2", ";">>,
      kept |-> <<"print", "0", ";", "print", "2", ";">>],
     [words |-> <<"print", "0", ";", "print", "1", "x", "3", ";", "print", "2", ";">>,
      kept |-> <<"print", "0", ";", "print", "2", ";">>],
     [words |-> <<"var", ";", "print", "2", ";">>,
      kept |-> <<"print", "2", ";">>],
     [words |-> <<"print", "0", ";", "+", "1", ";", "print", "2", ";">>,
      kept |-> <<"print", "0", ";", "print", "2", ";">>],
     [words |-> <<"print", "0", ";", "+", "print", "2", ";">>,
      kept |-> <<"print", "0", ";", "print", "2", ";">>],
     [words |-> <<")", "var", "a", "=", "1", ";">>,
      kept |-> <<"var", "a", "=", "1", ";">>]}

RecoveryPrograms == {c.words : c \in RecoveryCases}

(***************************************************************************)
(* Declarations that read or repeat the name they declare: the words, the  *)
(* number of reads of the variable in its own local initializer and the    *)
(* number of local redeclarations.                                         *)
(***************************************************************************)
DeclarationCases ==
    {[words |-> <<"{", "var", "a", "=", "a", "+", "a", ";", "}">>, reads |-> 2, again |-> 0],
     [words |-> <<"var", "a", "=", "1", ";", "{", "var", "a", "=", "a", ";", "}">>,
      reads |-> 1, again |-> 0],
     [words |-> <<"fun", "f", "(", ")", "{", "var", "a", "=", "-", "(", "a", ")", ";", "}">>,
      reads |-> 1, again |-> 0],
     [words |-> <<"{", "var", "a", "=", "clock", "(", "a", ")", ";", "}">>,
      reads |-> 1, again |-> 0],
     [words |-> <<"{", "var", "b", "=", "1", ";", "var", "a", "=", "b", ";", "}">>,
      reads |-> 0, again |-> 0],
     [words |-> <<"var", "a", "=", "a", ";">>, reads |-> 0, again |-> 0],
     [words |-> <<"{", "var", "a", "=", "1", ";", "var", "a", "=", "2", ";", "}">>,
      reads |-> 0, again |-> 1],
     [words |-> <<"{", "var", "a", ";", "{", "var", "a", ";", "}", "var", "a", ";",
                  "var", "a", ";", "}">>, reads |-> 0, again |-> 2],
     [words |-> <<"var", "a", "=", "1", ";", "var", "a", "=", "2", ";", "print", "a", ";">>,
      reads |-> 0, again |-> 0]}

DeclarationPrograms == {c.words : c \in DeclarationCases}

(***************************************************************************)
(* Uses of this, super and return inside and outside classes and           *)
(* functions: the words, and the number of uses the resolver is to reject. *)
(***************************************************************************)
ContextCases ==
    {[words |-> <<"fun", "f", "(", ")", "{", "print", "this", ";", "}">>, errs |-> 1],
     [words |-> <<"class", "A", "{", "m", "(", ")", "{", "print", "this", ";", "}", "}">>,
      errs |-> 0],
     [words |-> <<"class", "A", "{", "m", "(", ")", "{",
                      "fun", "g", "(", ")", "{", "print", "this", ";", "}", "}", "}">>,
      errs |-> 0],
     [words |-> <<"class", "A", "{", "m", "(", ")", "{", "}", "}", "print", "this", ";">>,
      errs |-> 1],
     [words |-> <<"print", "super", ".", "m", ";">>, errs |-> 1],
     [words |-> <<"class", "A", "{", "m", "(", ")", "{", "super", ".", "m", ";", "}", "}">>,
      errs |-> 1],
     [words |-> <<"class", "A", "{", "}", "class", "B", "<", "A", "{",
                      "m", "(", ")", "{", "super", ".", "m", ";", "}", "}">>,
      errs |-> 0],
     [words |-> <<"class", "A", "{", "}", "class", "B", "<", "A", "{", "}",
                  "print", "super", ".", "m", ";">>,
      errs |-> 1],
     [words |-> <<"class", "A", "{", "}", "class", "B", "<", "A", "{", "m", "(", ")", "{",
                      "class", "C", "{", "n", "(", ")", "{", "super", ".", "n", ";", "}", "}",
                      "super", ".", "m", ";", "}", "}">>,
      errs |-> 1],
     [words |-> <<"class", "A", "{", "m", "(", ")", "{",
                      "class", "B", "<", "A", "{", "n", "(", ")", "{",
                          "super", ".", "n", ";", "}", "}",
                      "super", ".", "m", ";", "print", "this", ";", "}", "}">>,
      errs |-> 1],
     [words |-> <<"fun", "f", "(", ")", "{", "fun", "g", "(", ")", "{", "return", "1", ";", "}",
                      "return", "2", ";", "}", "return", "3", ";">>,
      errs |-> 1],
     [words |-> <<"class", "A", "{", "init", "(", ")", "{",
                      "fun", "g", "(", ")", "{", "return", "1", ";", "}", "return", "2", ";", "}",
                  "m", "(", ")", "{", "return", "3", ";", "}", "}">>,
      errs |-> 1]}

ContextPrograms == {c.words : c \in ContextCases}

Sources ==
    Catalogue \cup NestedPrograms \cup LogicalChains \cup InvalidAssignments
        \cup EqualityPrograms \cup ComparisonPrograms \cup LogicalPrograms
        \cup SuperclassPrograms \cup RecoveryPrograms \cup DeclarationPrograms
        \cup ContextPrograms

(***************************************************************************)
(* The driver (main.rs): run() on one source with a new interpreter.       *)
(***************************************************************************)
\* A driver that goes on whatever the error counts are.
NoGate == TRUE

\* if parser.get_num_of_parser_errors() == 0
ParserGate == parser.errs = 0

\* if resolver.get_num_of_resolver_errs() == 0
ResolverGate == resolver.errs = 0

Init ==
    /\ source \in Sources
    /\ lexerrs = 0
    /\ tokens = <<>>
    /\ phase = "file"
    /\ parser = [current |-> 0, errs |-> 0]
    /\ stmts = <<>>
    /\ resolver = NewResolver
    /\ interp = NewInterpreter
    /\ pc = 1
    /\ result = [k |-> "none", msg |-> ""]
    /\ trace = <<>>
    /\ exitcode = "none"

\* The parser and the statements after parse() returned r.
Parsed(r) ==
    /\ parser' = [current |-> r.p.current, errs |-> r.p.errs]
    /\ stmts' = r.v

\* run_file: File::open and read_to_string succeed; Interpreter::new(), and
\* run(contents) is entered.
ReadFile ==
    /\ phase = "file"
    /\ phase' = "start"
    /\ UNCHANGED <<exitcode, source, lexerrs, tokens, parser, stmts, resolver, interp, pc,
                   result, trace>>

\* run_file: File::open or read_to_string fails; the ? returns the Err and
\* main returns ExitCode::FAILURE.
ReadFileFails ==
    /\ phase = "file"
    /\ phase' = "exited"
    /\ exitcode' = "FAILURE"
    /\ UNCHANGED <<source, lexerrs, tokens, parser, stmts, resolver, interp, pc, result, trace>>

\* run() has returned: run_file returns Ok(()) and main ExitCode::SUCCESS; a
\* panic inside interpret() has aborted the process instead.
MainReturns ==
    /\ phase = "done"
    /\ phase' = "exited"
    /\ exitcode' = IF result.k = "panic" THEN "panic" ELSE "SUCCESS"
    /\ UNCHANGED <<source, lexerrs, tokens, parser, stmts, resolver, interp, pc, result, trace>>

\* Scanner::new(source); scanner.scan_tokens()
RunScanner ==
    /\ phase = "start"
    /\ tokens' = ScanTokens(source)
    /\ lexerrs' = ScanErrors(source)
    /\ phase' = "scanned"
    /\ trace' = Append(trace, "scan_tokens")
    /\ UNCHANGED <<exitcode, source, parser, stmts, resolver, interp, pc, result>>

\* Parser::new(tokens); parser.parse()
RunParser ==
    /\ phase = "scanned"
    /\ Parsed(Parse(tokens))
    /\ phase' = "parsed"
    /\ trace' = Append(trace, "parse")
    /\ UNCHANGED <<exitcode, source, lexerrs, tokens, resolver, interp, pc, result>>

\* The resolver and the statements after resolve_stmts() returned r.
Resolved(r) ==
    /\ resolver' = r.rs
    /\ stmts' = r.v

\* Resolver::new(); resolver.resolve_stmts(&mut stmts)
RunResolver ==
    /\ phase = "parsed"
    /\ ParserGate
    /\ Resolved(ResolveStmts(NewResolver, stmts))
    /\ phase' = "resolved"
    /\ trace' = Append(trace, "resolve_stmts")
    /\ UNCHANGED <<exitcode, source, lexerrs, tokens, parser, interp, pc, result>>

\* run() returns: the parser reported errors.
ReturnAfterParser ==
    /\ phase = "parsed"
    /\ ~ParserGate
    /\ phase' = "done"
    /\ UNCHANGED <<exitcode, source, lexerrs, tokens, parser, stmts, resolver, interp, pc, result, trace>>

\* println!("{:#?}", stmts); interpreter.interpret(&stmts) is entered
BeginInterpret ==
    /\ phase = "resolved"
    /\ ResolverGate
    /\ phase' = "running"
    /\ trace' = trace \o <<"println", "interpret">>
    /\ UNCHANGED <<exitcode, source, lexerrs, tokens, parser, stmts, resolver, interp, pc, result>>

\* run() returns: the resolver reported errors.
ReturnAfterResolver ==
    /\ phase = "resolved"
    /\ ~ResolverGate
    /\ phase' = "done"
    /\ UNCHANGED <<exitcode, source, lexerrs, tokens, parser, stmts, resolver, interp, pc, result, trace>>

\* The interpreter after execute() returned r for the statement at pc: an Err
\* ends interpret() and run() reports it.
StatementExecuted(r) ==
    /\ interp' = r.st
    /\ IF r.k = "ok"
       THEN /\ pc' = pc + 1
            /\ UNCHANGED <<phase, result>>
       ELSE /\ result' = [k |-> r.k, msg |-> r.msg]
            /\ phase' = "done"
            /\ UNCHANGED pc

\* One step of interpret()'s try_for_each: execute the next top-level statement.
InterpretStatement ==
    /\ phase = "running"
    /\ pc <= Len(stmts)
    /\ StatementExecuted(Interpret("Execute", interp, stmts[pc], NoNode))
    /\ UNCHANGED <<exitcode, source, lexerrs, tokens, parser, stmts, resolver, trace>>

\* interpret() returns Ok(()): every statement was executed.
InterpretReturnsOk ==
    /\ phase = "running"
    /\ pc > Len(stmts)
    /\ result' = [k |-> "ok", msg |-> ""]
    /\ phase' = "done"
    /\ UNCHANGED <<exitcode, source, lexerrs, tokens, parser, stmts, resolver, interp, pc, trace>>

\* Standard output of the run, line by line: what run() writes itself (the
\* {:#?} dump of the statements, before interpret()), then the lines of the
\* print statements executed.
Stdout ==
    (IF \E i \in 1..Len(trace) : trace[i] = "println"
     THEN <<[by |-> "run", text |-> "{:#?}"]>>
     ELSE <<>>)
        \o [i \in 1..Len(interp.out) |-> [by |-> "print", text |-> interp.out[i]]]

Next ==
    \/ ReadFile
    \/ ReadFileFails
    \/ RunScanner
    \/ RunParser
    \/ RunResolver
    \/ ReturnAfterParser
    \/ BeginInterpret
    \/ ReturnAfterResolver
    \/ InterpretStatement
    \/ InterpretReturnsOk
    \/ MainReturns

Spec == Init /\ [][Next]_vars

(***************************************************************************)
(* The scanner alone: scan_tokens on every text of at most MaxTextLen      *)
(* graphemes.                                                              *)
(***************************************************************************)
Graphemes == {"\"", "/", "*", "\n", "1", ".", "o", "r", "=", "@"}

MaxTextLen == 4

Texts == UNION {[1..n -> Graphemes] : n \in 0..MaxTextLen}

InitScan ==
    /\ source \in Texts
    /\ lexerrs = 0
    /\ tokens = <<>>
    /\ phase = "start"
    /\ parser = [current |-> 0, errs |-> 0]
    /\ stmts = <<>>
    /\ resolver = NewResolver
    /\ interp = NewInterpreter
    /\ pc = 1
    /\ result = [k |-> "none", msg |-> ""]
    /\ trace = <<>>
    /\ exitcode = "none"

\* The driver after scan_tokens() on the text ended as the scanner sc: a
\* panic returns no tokens.
Scanned(sc) ==
    /\ tokens' = IF sc.panicked THEN tokens ELSE sc.tokens
    /\ lexerrs' = sc.errs
    /\ phase' = IF sc.panicked THEN "panic" ELSE "scanned"

\* Scanner::new(source); scanner.scan_tokens()
ScanSource ==
    /\ phase = "start"
    /\ Scanned(ScanGraphemes(source))
    /\ trace' = Append(trace, "scan_tokens")
    /\ UNCHANGED <<exitcode, source, parser, stmts, resolver, interp, pc, result>>

NextScan == ScanSource

SpecScan == InitScan /\ [][NextScan]_vars

(***************************************************************************)
(* The environment chain as an object of its own: frames are created on a  *)
(* frame of the chain, names are defined in a frame, and assign(name,      *)
(* value) is called on any frame.  result keeps the last call of assign.   *)
(***************************************************************************)
MaxFrames == 3

\* The names defined by the calls; assign is also called with the name of the
\* native function that Interpreter::new defines in the globals frame.
EnvNames == {"a"}

AssignedNames == EnvNames \cup {"clock"}

EnvValues == {Number(1), Number(2)}

InitEnv ==
    /\ source = <<>>
    /\ lexerrs = 0
    /\ tokens = <<>>
    /\ phase = "env"
    /\ parser = [current |-> 0, errs |-> 0]
    /\ stmts = <<>>
    /\ resolver = NewResolver
    /\ interp = NewInterpreter
    /\ pc = 1
    /\ result = [k |-> "none", msg |-> "", env |-> 0, name |-> "", value |-> Nil]
    /\ trace = <<>>
    /\ exitcode = "none"

\* Environment::new_with(outer_scope)
EnvironmentNewWith ==
    /\ Len(interp.envs) < MaxFrames
    /\ \E outer_scope \in 1..Len(interp.envs) : interp' = NewEnv(interp, outer_scope).st
    /\ phase' = "env"
    /\ UNCHANGED <<exitcode, source, lexerrs, tokens, parser, stmts, resolver, pc, result, trace>>

\* environment.define(name, value)
EnvironmentDefine ==
    /\ \E env \in 1..Len(interp.envs), name \in EnvNames, value \in EnvValues :
            interp' = EnvDefine(interp, env, name, value)
    /\ phase' = "env"
    /\ UNCHANGED <<exitcode, source, lexerrs, tokens, parser, stmts, resolver, pc, result, trace>>

\* environment.assign(name, value)
EnvironmentAssign ==
    /\ \E env \in 1..Len(interp.envs), name \in AssignedNames, value \in EnvValues :
            LET r == EnvAssign(interp, env, name, value)
            IN  /\ interp' = r.st
                /\ result' = [k |-> r.k, msg |-> r.msg, env |-> env, name |-> name,
                              value |-> value]
    /\ phase' = "assigned"
    /\ UNCHANGED <<exitcode, source, lexerrs, tokens, parser, stmts, resolver, pc, trace>>

NextEnv == EnvironmentNewWith \/ EnvironmentDefine \/ EnvironmentAssign

SpecEnv == InitEnv /\ [][NextEnv]_vars

(***************************************************************************)
(* parse() one iteration of its loop at a time, on every sequence of at    *)
(* most MaxWords words of ParsedWords followed by the end of input.        *)
(***************************************************************************)
MaxWords == 4

ParsedWords == {"{", "}", ";", "print", "1", "(", ")"}

WordSequences == UNION {[1..n -> ParsedWords] : n \in 0..MaxWords}

\* Parser::new(tokens)
InitParse ==
    /\ source \in WordSequences
    /\ lexerrs = 0
    /\ tokens = ScanTokens(source)
    /\ phase = "parsing"
    /\ parser = [current |-> 0, errs |-> 0]
    /\ stmts = <<>>
    /\ resolver = NewResolver
    /\ interp = NewInterpreter
    /\ pc = 1
    /\ result = [k |-> "none", msg |-> ""]
    /\ trace = <<>>
    /\ exitcode = "none"

\* The parser of the state, at the token cursor current.
ParserAt(current) == [tokens |-> tokens, current |-> current, errs |-> parser.errs]

\* A variant of the end of an iteration in which a declaration that errs is
\* counted and the cursor is put back where the declaration began.
DeclaredRewinding(d) ==
    /\ parser' = [current |-> IF d.some THEN d.p.current ELSE parser.current,
                  errs |-> d.p.errs]
    /\ stmts' = IF d.some THEN Append(stmts, d.v) ELSE stmts

\* The parser and the statements after declaration() returned d in the loop
\* of parse(): if let Some(stmt) = stmt { statements.push(stmt) }
Declared(d) ==
    /\ parser' = [current |-> d.p.current, errs |-> d.p.errs]
    /\ stmts' = IF d.some THEN Append(stmts, d.v) ELSE stmts

\* One iteration of parse()'s loop: while !self.is_at_end() { declaration() }
ParseDeclaration ==
    /\ phase = "parsing"
    /\ ~IsAtEnd(ParserAt(parser.current))
    /\ Declared(ParseRule("Declaration", ParserAt(parser.current), NoNode))
    /\ UNCHANGED <<exitcode, source, lexerrs, tokens, phase, resolver, interp, pc, result,
                   trace>>

\* parse() leaves its loop at the end of input and returns the statements.
ParseReturns ==
    /\ phase = "parsing"
    /\ IsAtEnd(ParserAt(parser.current))
    /\ phase' = "parsed"
    /\ UNCHANGED <<exitcode, source, lexerrs, tokens, parser, stmts, resolver, interp, pc,
                   result, trace>>

\* A call of declaration() at any token but the end of input returns with the
\* cursor further on and not past the end of input: the iterations of the
\* block loop start at such tokens.
DeclarationAdvances ==
    \A i \in 0..(Len(tokens) - 2) :
        LET d == ParseRule("Declaration", ParserAt(i), NoNode)
        IN  d.p.current > i /\ d.p.current < Len(tokens)

NextParse == ParseDeclaration \/ ParseReturns

SpecParse == InitParse /\ [][NextParse]_vars

\* parse() is a loop of one thread, which takes its next step when it has one:
\* weak fairness of the return and of the iteration.  The fairness of the
\* iteration is written with its guard for its enabling condition: a step of
\* the iteration changes the cursor, which DeclarationAdvances states.
SpecParseLive ==
    /\ SpecParse
    /\ WF_vars(ParseReturns)
    /\ \/ []<>(~(phase = "parsing" /\ ~IsAtEnd(ParserAt(parser.current))))
       \/ []<><<ParseDeclaration>>_vars

(***************************************************************************)
(* Properties.  Ended(src): the run of the source src has ended.            *)
(***************************************************************************)
Ended(src) == source = src /\ phase = "done"

\* The entries of the interpreter's history with event ev.
Events(ev) == {i \in 1..Len(interp.log) : interp.log[i].ev = ev}

\* C1: find_method searches the class's own method table first: for every class
\* that has a superclass and every method name it declares itself, find_method
\* on the class returns the class's own method.
C1_OwnMethodFirst ==
    \A c \in 1..Len(interp.classes) :
        interp.classes[c].super_class # 0 =>
            \A m \in DOMAIN interp.classes[c].methods :
                FindMethod(interp, c, m) = interp.classes[c].methods[m]

\* C2: with A and B < A both declaring say() and B.say calling super.say(),
\* B().say() runs B's say, whose super.say runs A's body on the same instance:
\* the output is A, then B.
C2_SuperSayThenOwn ==
    Ended(Scenario4) => result.k = "ok" /\ interp.out = <<"A", "B">>

C4_EnvironmentRestored ==
    /\ \A i \in Events("block") : interp.log[i].after = interp.log[i].before
    /\ (phase \in {"running", "done"} /\ result.k # "panic")
            => interp.environment = interp.globals

\* interpret() returned a runtime error raised inside a block inside a call.
C4_Witness ==
    /\ phase = "done" /\ result.k = "err"
    /\ \E i \in Events("block") : interp.log[i].k = "err"
    /\ Events("call") # {}

\* C5: in a program the resolver accepted, interpret() never returns an
\* EarlyReturn: every return executed is caught by the call of its function.
C5_ReturnNeverEscapes == result.k # "ret"

\* A return was executed inside a loop inside a block, and interpret() returned Ok.
C5_Witness ==
    /\ Ended(ReturnInLoop) /\ result.k = "ok"
    /\ Events("return") # {}

\* C6: calling a class that declares init returns the new instance, when init
\* completes normally and when it executes a bare return; here for a class that
\* extends another.
C6_InitReturnsInstance ==
    /\ \A i \in Events("constructed") :
            interp.log[i].k = "ok" => interp.log[i].v = Val("Instance", interp.log[i].instance, "")
    /\ Ended(SubclassInit) => result.k = "ok" /\ interp.out = <<"1">>

\* C7: every call makes a fresh frame enclosing the function's closure; closures
\* made by two calls of make() do not share x, and calls of one closure do:
\* a(), a(), b() print 1, 2, 1.
C7_ClosureIdentity ==
    /\ \A i \in Events("call") : \A j \in Events("call") :
            i # j => interp.log[i].frame # interp.log[j].frame
    /\ \A i \in Events("call") :
            interp.envs[interp.log[i].frame].enclosing = interp.log[i].closure
    /\ Ended(MakeInc) => result.k = "ok" /\ interp.out = <<"1", "2", "1">>

\* The make()/inc() program has run to its end, with five calls made.
C7_Witness == Ended(MakeInc) /\ Cardinality(Events("call")) = 5

\* C8: a function reads the binding visible at its declaration: with a global
\* a = "global" and a block that declares show(), calls it, declares a local
\* a = "local" and calls show() again, both calls print global.
C8_StaticScoping ==
    Ended(Scenario2) => result.k = "ok" /\ interp.out = <<"global", "global">>

\* The program has run to its end, the block's own a having been defined.
C8_Witness ==
    /\ Ended(Scenario2)
    /\ \E e \in 1..Len(interp.envs) :
            /\ "a" \in DOMAIN interp.envs[e].values
            /\ interp.envs[e].values["a"] = Val("String", 0, "local")

\* The scopes of a history entry of the resolver that hold its name.
Holders(entry) == {i \in 1..Len(entry.scopes) : entry.name \in entry.scopes[i]}

\* C9: after resolving with zero errors, the depth written into every Variable,
\* Assign, This and Super node is Some(d) exactly when some local scope held the
\* name, d being the hops from the innermost scope to the innermost one holding
\* it, and None exactly when no local scope held it.
C9_ResolverCompleteness ==
    (phase \notin {"start", "scanned", "parsed"} /\ resolver.errs = 0) =>
        \A i \in 1..Len(resolver.log) :
            LET entry == resolver.log[i]
            IN  IF Holders(entry) = {} THEN entry.depth = None
                ELSE \E h \in Holders(entry) :
                        /\ \A g \in Holders(entry) : g <= h
                        /\ entry.depth = Len(entry.scopes) - h

\* A program was resolved with no error in which one name was found two or more
\* scopes up and another in the innermost scope.
C9_Witness ==
    /\ phase = "resolved" /\ resolver.errs = 0
    /\ \E i \in 1..Len(resolver.log) : resolver.log[i].depth >= 2
    /\ \E i \in 1..Len(resolver.log) : resolver.log[i].depth = 0

\* C10: when the parser reported an error neither the resolver nor the
\* interpreter is invoked, and when the resolver reported an error the
\* interpreter is not invoked: no statement is executed, no environment changed.
C10_PhaseGating ==
    /\ parser.errs > 0 =>
            /\ \A i \in 1..Len(trace) : trace[i] \notin {"resolve_stmts", "interpret"}
            /\ interp = NewInterpreter
    /\ resolver.errs > 0 =>
            /\ \A i \in 1..Len(trace) : trace[i] # "interpret"
            /\ interp = NewInterpreter

\* A run has ended after a parse error, statements having been parsed.
C10_Witness == phase = "done" /\ parser.errs > 0 /\ Len(stmts) > 0

\* C11: a source for which the scanner reported an error is never handed to
\* the interpreter.
C11_LexicalErrorsGate ==
    lexerrs > 0 => \A i \in 1..Len(trace) : trace[i] # "interpret"

\* C12: scan_tokens completes on every text, and the token sequence it
\* returns ends with the end-of-input token and holds no other one.
C12_ScannerTotal ==
    phase # "start" =>
        /\ phase # "panic"
        /\ Len(tokens) > 0
        /\ \A i \in 1..Len(tokens) : tokens[i].type = "EOF" <=> i = Len(tokens)

\* The left-associative nest of Logical nodes over the operands 1 .. n.
RECURSIVE LeftNest(_, _)
LeftNest(operator, n) ==
    IF n = 1 THEN Litral("Number", 1, "")
    ELSE [k |-> "Logical", left |-> LeftNest(operator, n - 1), operator |-> operator,
          right |-> Litral("Number", n, "")]

\* C13: a chain of n >= 1 operands joined by 'or' (or by 'and') is parsed
\* whole, with no parse error, into the left-associative nest of Logical nodes.
C13_LogicalChains ==
    \A op \in {"or", "and"}, n \in 1..MaxChain :
        (source = LogicalChain(op, n) /\ phase = "parsed") =>
            /\ parser.errs = 0
            /\ stmts = <<[k |-> "PrintStmt", expression |-> LeftNest(KEYWORDS[op], n)]>>

\* The statements parse() returns for the words ws.
ParsedAlone(ws) == Parse(ScanTokens(ws)).v

\* C14: an assignment whose target is neither a Variable nor a Get counts
\* exactly one parser error and does not fail the statement: '=' and the
\* right-hand expression are consumed, the statement goes on with the
\* left-hand expression as its expression, and the statements around it are
\* parsed as they are alone.
C14_InvalidAssignmentTarget ==
    \A target \in InvalidTargets :
        (source = InvalidAssignment(target) /\ phase = "parsed") =>
            /\ parser.errs = 1
            /\ Len(stmts) = 3
            /\ stmts[1] = ParsedAlone(<<"print", "0", ";">>)[1]
            /\ stmts[2] = ParsedAlone(target \o <<";">>)[1]
            /\ stmts[2].k = "ExpressionStmt"
            /\ stmts[3] = ParsedAlone(<<"print", "4", ";">>)[1]
            /\ tokens[parser.current + 1].type = "EOF"

C14_Witness ==
    /\ source = InvalidAssignment(<<"1", "+", "2">>)
    /\ phase = "parsed"
    /\ parser.errs = 1
    /\ Len(stmts) = 3
    /\ stmts[2].expression.k = "Binary"

\* The expression parse() returns for the words ws taken as an expression
\* statement.
ExpressionAlone(ws) == ParsedAlone(ws \o <<";">>)[1].expression

\* Block[init, While(cond, Block[body, ExpressionStmt(step)])]
ForShape(init, cond, step, body) ==
    [k |-> "Block",
     statements |->
        <<init,
          [k |-> "WhileStmt", condition |-> cond,
           body |-> [k |-> "Block",
                     statements |-> <<body, [k |-> "ExpressionStmt", expression |-> step]>>]]>>]

\* C15: for (init; cond; step) body is parsed into
\* Block[init, While(cond, Block[body, ExpressionStmt(step)])], an absent
\* condition becoming the literal true; the step runs after each execution
\* of the body, and var a=0; for (var i=0; i<3; i=i+1) a = a + i; print a;
\* prints 3.
C15_ForDesugaring ==
    /\ (source = Scenario6 /\ phase = "parsed") =>
            /\ parser.errs = 0
            /\ Len(stmts) = 3
            /\ stmts[2] = ForShape(ParsedAlone(<<"var", "i", "=", "0", ";">>)[1],
                                   ExpressionAlone(<<"i", "<", "3">>),
                                   ExpressionAlone(<<"i", "=", "i", "+", "1">>),
                                   ParsedAlone(<<"a", "=", "a", "+", "i", ";">>)[1])
    /\ (source = ForNoCondition /\ phase = "parsed") =>
            /\ parser.errs = 0
            /\ stmts[1].body[1] =
                  ForShape(ParsedAlone(<<"var", "i", "=", "0", ";">>)[1],
                           Litral("Boolean", 1, ""),
                           ExpressionAlone(<<"i", "=", "i", "+", "1">>),
                           ParsedAlone(<<"{", "if", "(", "i", ">", "1", ")",
                                         "return", "i", ";", "}">>)[1])
    /\ Ended(Scenario6) => result.k = "ok" /\ interp.out = <<"3">>
    /\ Ended(ForNoCondition) => result.k = "ok" /\ interp.out = <<"2">>
    /\ Ended(ForEachStep) => result.k = "ok" /\ interp.out = <<"0", "1", "7">>

C15_Witness ==
    /\ Ended(ForNoCondition)
    /\ interp.out = <<"2">>
    /\ stmts[1].body[1].statements[2].condition.k = "Litral"

\* What print writes for a Boolean.
Shown(b) == IF b THEN "true" ELSE "false"

\* C16: == and != are defined for all values: numbers, strings and booleans
\* are equal by content, nil equals only nil, values of different kinds are
\* unequal, a function, class or instance equals itself and no other one;
\* x != y is the negation of x == y.  (Two of the operands are equal in this
\* sense exactly when they are the same word.)
C16_Equality ==
    \A x \in Operands, y \in Operands :
        Ended(EqualityProgram(x, y)) =>
            /\ result.k = "ok"
            /\ interp.out = <<Shown(x = y), Shown(x # y)>>

\* The comparison op of two whole numbers.
Compared(op, a, b) ==
    CASE op = "<" -> a < b [] op = "<=" -> a <= b [] op = ">" -> a > b [] op = ">=" -> a >= b

\* C17: > >= < <= take Numbers only: a comparison of two numbers prints its
\* Boolean, and a comparison whose operands are not both Numbers ends in a
\* runtime error and prints nothing.
C17_ComparisonNumbersOnly ==
    \A op \in Comparisons, x \in Comparands, y \in Comparands :
        Ended(ComparisonProgram(op, x, y)) =>
            IF x \in DOMAIN Numerals /\ y \in DOMAIN Numerals
            THEN /\ result.k = "ok"
                 /\ interp.out = <<Shown(Compared(op, Numerals[x], Numerals[y]))>>
            ELSE /\ result.k = "err"
                 /\ interp.out = <<>>

\* The value a literal word (or the native clock) evaluates to.
WordValue(w) ==
    CASE w = "nil" -> Nil
      [] w = "true" -> Boolean(TRUE)
      [] w = "false" -> Boolean(FALSE)
      [] w = "clock" -> Val("Native", 0, "clock")
      [] w \in DOMAIN Numerals -> Number(Numerals[w])
      [] w \in DOMAIN StringLitrals -> Val("String", 0, StringLitrals[w])

\* The global variables when the run has ended.
GlobalValues == interp.envs[interp.globals].values

\* C18: 'or' with a truthy left value and 'and' with a falsey one give that
\* left value and never evaluate the right operand (its assignment does not
\* happen); otherwise the result is the value of the right operand, which is
\* evaluated.  Only nil and false are falsey.
C18_ShortCircuit ==
    \A op \in {"or", "and"}, left \in LeftOperands :
        Ended(LogicalProgram(op, left)) =>
            /\ result.k = "ok"
            /\ IF (op = "or") = (left \notin {"nil", "false"})
               THEN GlobalValues["r"] = WordValue(left) /\ GlobalValues["a"] = Number(0)
               ELSE GlobalValues["r"] = Number(7) /\ GlobalValues["a"] = Number(7)

C18_Witness ==
    /\ Ended(LogicalProgram("or", "0"))
    /\ GlobalValues["r"] = Number(0)
    /\ GlobalValues["a"] = Number(0)

\* C19: print shows nil as nil, booleans as true and false, a string as its
\* contents, a function as <fn NAME>, a class as <class NAME> and an
\* instance as <instance of NAME>.
C19_DisplayForms ==
    Ended(DisplayForms) =>
        /\ result.k = "ok"
        /\ interp.out = <<"nil", "true", "false", "A", "<fn f>", "<class C>",
                          "<instance of C>">>

\* C20: standard output holds the lines of the executed print statements,
\* in execution order, and nothing else.
C20_StdoutOnlyPrints ==
    /\ \A i \in 1..Len(Stdout) : Stdout[i].by = "print"
    /\ Ended(ForEachStep) => [i \in 1..Len(Stdout) |-> Stdout[i].text] = <<"0", "1", "7">>

\* run_file failed to open or read the file: run() was never entered.
IOError == phase = "exited" /\ trace = <<>>

\* C21: the exit code is SUCCESS (0) only on clean success: it is not
\* SUCCESS when there was an I/O error, a parse error, a resolver error or a
\* runtime error.
C21_ExitCode ==
    phase = "exited" =>
        (exitcode = "SUCCESS" <=>
            (~IOError /\ parser.errs = 0 /\ resolver.errs = 0 /\ result.k = "ok"))

\* C22: a class declaration whose superclass evaluates to something that is
\* not a class ends interpret() with a runtime error; the interpreter does
\* not abort, and the class is neither constructed nor bound.
C22_SuperclassMustBeClass ==
    \A super \in NotClasses :
        Ended(SuperclassProgram(super)) =>
            /\ result = [k |-> "err", msg |-> "Super class must be a class"]
            /\ Len(interp.classes) = 1
            /\ "B" \notin DOMAIN GlobalValues
            /\ interp.out = <<>>

\* C23: a parse error in a declaration counts one error and pushes no
\* statement for it, and the parser goes on right after the next ';' or at
\* the next class, fun, var, for, if, while, print or return, whichever
\* comes first: the statements before the error and from that point on are
\* parsed, a statement that starts with such a keyword right after the
\* offending token included.
C23_ErrorRecovery ==
    \A c \in RecoveryCases :
        (source = c.words /\ phase = "parsed") =>
            /\ parser.errs = 1
            /\ stmts = ParsedAlone(c.kept)
            /\ tokens[parser.current + 1].type = "EOF"

\* C24: a call evaluates the callee, which must be callable, then the
\* arguments from left to right, then enforces the arity, then invokes: the
\* assignments in the arguments have happened when the arity error is
\* raised, and the function is not invoked.
C24_CallOrder ==
    /\ Ended(NotCallable) =>
            /\ result = [k |-> "err", msg |-> "Only functions and classes are callable"]
            /\ GlobalValues["x"] = Number(0)
    /\ Ended(ArgumentsInOrder) =>
            /\ result.k = "ok"
            /\ interp.out = <<"1", "3">>
    /\ Ended(ArityMismatch) =>
            /\ result.k = "err"
            /\ interp.out = <<>>
            /\ GlobalValues["x"] = Number(2)

\* C25: in a local scope every read of a variable inside its own
\* initializer is an error and so is the declaration of a name the same
\* scope already holds; at global scope neither is reported.  (Each program
\* has no other resolver error, so the count is that of these two.)
C25_OwnInitializerAndRedeclaration ==
    \A c \in DeclarationCases :
        (source = c.words /\ phase = "resolved") =>
            /\ parser.errs = 0
            /\ resolver.errs = c.reads + c.again

C25_Witness ==
    /\ phase = "resolved"
    /\ \E c \in DeclarationCases : source = c.words /\ c.reads = 2
    /\ resolver.errs = 2

\* C26: this is an error exactly outside every class body, super exactly
\* outside every class body or in a class without a superclass, and after a
\* class or a function has been resolved current_class and current_function
\* are what they were before it: the uses after or around a nested class or
\* function are judged by the class or function they stand in.
C26_ClassContext ==
    \A c \in ContextCases :
        (source = c.words /\ phase = "resolved") =>
            /\ parser.errs = 0
            /\ resolver.errs = c.errs
            /\ resolver.current_class = "None"
            /\ resolver.current_function = "None"

C26_Witness ==
    /\ phase = "resolved"
    /\ \E c \in ContextCases :
            source = c.words /\ {"<", "this"} \subseteq {c.words[i] : i \in 1..Len(c.words)}
    /\ resolver.errs = 1
    /\ \E i \in 1..Len(resolver.log) : resolver.log[i].k = "Super"
    /\ \E i \in 1..Len(resolver.log) : resolver.log[i].k = "This"

\* Whether the enclosing links lead from the frame env to the globals frame.
RECURSIVE LinkedToGlobals(_)
LinkedToGlobals(env) ==
    IF env = 0 THEN FALSE
    ELSE IF env = interp.globals THEN TRUE
    ELSE LinkedToGlobals(interp.envs[env].enclosing)

\* C27: the current environment and the closure of every function are
\* linked through their enclosing handles to the globals frame, at every
\* point of the execution.
C27_ChainToGlobals ==
    /\ LinkedToGlobals(interp.environment)
    /\ \A f \in 1..Len(interp.funs) : LinkedToGlobals(interp.funs[f].closure)

\* The nearest frame holding the name, from env outward in the frames envs; 0
\* when no frame of the chain holds it.
RECURSIVE NearestHolder(_, _, _)
NearestHolder(envs, env, name) ==
    IF env = 0 THEN 0
    ELSE IF name \in DOMAIN envs[env].values THEN env
    ELSE NearestHolder(envs, envs[env].enclosing, name)

\* C28: a call of assign(name, value) on a frame overwrites the binding of the
\* nearest frame, from that frame outward, that holds the name, changes no
\* other frame and creates no binding; when no frame of the chain holds the
\* name it returns the runtime error and changes no frame.
C28_AssignByName ==
    [][(phase' = "assigned") =>
        LET h == NearestHolder(interp.envs, result'.env, result'.name)
        IN  IF h = 0
            THEN /\ result'.k = "err"
                 /\ result'.msg = "Variable is not declared"
                 /\ interp'.envs = interp.envs
            ELSE /\ result'.k = "ok"
                 /\ interp'.envs =
                        [interp.envs EXCEPT ![h].values[result'.name] = result'.value]
                 /\ \A e \in 1..Len(interp.envs) :
                        DOMAIN interp'.envs[e].values = DOMAIN interp.envs[e].values]_vars

\* assign on an inner frame that does not hold the name has overwritten the
\* binding of the outermost frame, two links away.
C28_Witness ==
    /\ phase = "assigned"
    /\ result.k = "ok"
    /\ result.env = 3
    /\ result.name \notin DOMAIN interp.envs[3].values
    /\ NearestHolder(interp.envs, 3, result.name) = 1
    /\ interp.envs[1].values[result.name] = result.value
    /\ interp.envs[3].enclosing = 2

\* assign on a chain of two frames that do not hold the name has erred.
C28_WitnessMiss ==
    /\ phase = "assigned"
    /\ result.k = "err"
    /\ result.env = 2

\* C29: parse() terminates on every sequence of tokens that ends in the end of
\* input; each iteration of its loop, and each call of declaration() a block
\* loop can make, moves the cursor on, also when the declaration errs and
\* synchronize runs; the cursor is never past the end-of-input token, where
\* parse() returns.
C29_ParserTerminates ==
    /\ <>(phase = "parsed")
    /\ [][parser'.current >= parser.current
            /\ (parser' # parser => parser'.current > parser.current)]_vars
    /\ [](/\ parser.current < Len(tokens)
          /\ DeclarationAdvances
          /\ (phase = "parsed" =>
                /\ parser.current = Len(tokens) - 1
                /\ parser = [current |-> Parse(tokens).p.current,
                             errs |-> Parse(tokens).p.errs]
                /\ stmts = Parse(tokens).v))

\* parse() has returned after an iteration whose declaration erred inside a
\* block and an iteration that added a statement.
C29_Witness ==
    /\ phase = "parsed"
    /\ source = <<"{", ")", "print", "1">>
    /\ parser.errs > 0

\* C30: when resolve_stmts has returned for the program, with or without
\* errors reported, the stack of local scopes and the stack of class scopes
\* are empty and current_function and current_class are None; wherever the
\* resolver wrote a depth, every 'super' scope of the scope stack holds that
\* name alone and has the 'this' scope of its class, holding that name alone,
\* as the next scope inside it.
C30_ScopeBalance ==
    (phase = "resolved") =>
        /\ resolver.scopes = <<>>
        /\ resolver.class_scopes = <<>>
        /\ resolver.current_function = "None"
        /\ resolver.current_class = "None"
        /\ \A i \in 1..Len(resolver.log) :
                LET scopes == resolver.log[i].scopes
                IN  \A j \in 1..Len(scopes) :
                        "super" \in scopes[j] =>
                            /\ scopes[j] = {"super"}
                            /\ j < Len(scopes)
                            /\ scopes[j + 1] = {"this"}

\* The resolver has returned, after reporting an error, from a program in
\* which it wrote a depth in the body of a method of a subclass that is
\* declared inside another scope.
C30_Witness ==
    /\ phase = "resolved"
    /\ resolver.errs > 0
    /\ \E i \in 1..Len(resolver.log) :
            LET scopes == resolver.log[i].scopes
            IN  \E j \in 2..Len(scopes) : "super" \in scopes[j] /\ j + 1 < Len(scopes)

====
